---- MODULE Spec2Model ----
(***************************************************************************)
(* Request lifecycle and response-allocation subsystem of tritonserver-rs: *)
(* the Request builder (src/src/request.rs), infer_async and the native    *)
(* callbacks (src/src/request/infer.rs), the futures                       *)
(* (src/src/request/utils.rs), the response allocator bridge               *)
(* (src/src/allocator.rs), Response (src/src/response.rs), Buffer          *)
(* (src/src/memory.rs) and Trace (src/src/trace.rs).                       *)
(*                                                                         *)
(* The specifications share the variables:                                 *)
(*   SpecBuild  a Request in the Building state, up to infer_async;        *)
(*   SpecShape  one add_input*_with_dims call, over dimensions and buffers;*)
(*   Spec       one inference from infer_async to the end of its futures;  *)
(*   FairSpec   Spec with the fairness of the threads that run the code;   *)
(*   SpecAlloc  one alloc callback, over requests and allocator results;   *)
(*   SpecRecv   the caller's futures, over the states of the channel;      *)
(*   SpecMem    one Buffer of memory.rs: made, then read or written;       *)
(*   SpecThreads the alloc and query callbacks on several native threads;  *)
(*   SpecTrace  one Trace, its children and the trace callbacks.           *)
(***************************************************************************)
EXTENDS Integers, Sequences, FiniteSets, TLC

(***************************************************************************)
(* Bounds of the model.                                                    *)
(***************************************************************************)
\* Longest dimension list passed to add_input_with_dims.
MaxDims == 2

\* Most get_input_release calls on one ResponseFuture.
MaxGets == 2

\* Native threads from which the engine calls alloc and query at once.
MaxThreads == 3

\* Most children spawned from one Trace.
MaxChildren == 2

(***************************************************************************)
(* Fixed-width integer arithmetic.  A number is a little-endian sequence   *)
(* of 8-bit limbs, so that i64 and u32 values keep their width although    *)
(* the model checker's integers are 32 bits wide.                          *)
(***************************************************************************)
RECURSIVE SumTo(_, _)
SumTo(f, n) == IF n = 0 THEN 0 ELSE f[n] + SumTo(f, n - 1)

\* The limbs of a non-negative integer below 2^31.
ToLimbs(n) ==
    << n % 256, (n \div 256) % 256, (n \div 65536) % 256, (n \div 16777216) % 256 >>

\* Column j of the schoolbook product of a and b.
MulColumn(a, b, j) ==
    SumTo([i \in 1..Len(a) |->
              IF j - i + 1 >= 1 /\ j - i + 1 <= Len(b) THEN a[i] * b[j - i + 1] ELSE 0],
          Len(a))

RECURSIVE MulCarry(_, _, _, _)
MulCarry(a, b, j, carry) ==
    IF j > Len(a) + Len(b) THEN << >>
    ELSE LET t == MulColumn(a, b, j) + carry
         IN  << t % 256 >> \o MulCarry(a, b, j + 1, t \div 256)

\* The exact product, Len(a) + Len(b) limbs wide.
BigMul(a, b) == MulCarry(a, b, 1, 0)

\* Whether limb i or a higher one of a is non-zero.
HighBits(a, i) == \E k \in i..Len(a) : a[k] # 0

\* The low w limbs of a, zero-extended: a modulo 2^(8w).
Truncate(a, w) == [i \in 1..w |-> IF i <= Len(a) THEN a[i] ELSE 0]

\* a > b, for limb sequences of any lengths.
BigGreater(a, b) ==
    LET w  == IF Len(a) > Len(b) THEN Len(a) ELSE Len(b)
        x  == Truncate(a, w)
        y  == Truncate(b, w)
    IN  \E i \in 1..w : x[i] > y[i] /\ \A k \in (i + 1)..w : x[k] = y[k]

(***************************************************************************)
(* Model metadata held by the Server (message.rs: Model, Shape) and the    *)
(* data the caller passes in.                                              *)
(***************************************************************************)
\* DataType::size: bytes per element; Bytes has a variable size and reports 0.
DataTypeSize(dt) ==
    CASE dt = "Uint8"  -> 1
      [] dt = "Uint16" -> 2
      [] dt = "Fp32"   -> 4
      [] dt = "Int64"  -> 8
      [] dt = "Bytes"  -> 0

\* Model::inputs of the model the Request was created for.
ModelInputs ==
    { [name |-> "IN0", datatype |-> "Uint8", dims |-> << -1, 3 >>],
      [name |-> "IN1", datatype |-> "Fp32",  dims |-> << 2 >>] }

\* Model::outputs of that model.
ModelOutputs ==
    { [name |-> "A", datatype |-> "Fp32"],
      [name |-> "B", datatype |-> "Uint8"] }

OutputNames == { o.name : o \in ModelOutputs }

\* Names a caller may pass to add_input*: the declared ones and one more.
InputNames == { s.name : s \in ModelInputs } \cup { "NOPE" }

\* Buffers a caller may attach (memory.rs: Buffer {ptr, len, data_type, ..}).
InputBuffers ==
    { [ptr |-> "p1", len |-> 3, data_type |-> "Uint8"],
      [ptr |-> "p2", len |-> 8, data_type |-> "Uint8"],
      [ptr |-> "p3", len |-> 8, data_type |-> "Fp32"] }

\* More buffers, for the shape check alone.
ShapeBuffers ==
    InputBuffers \cup
    { [ptr |-> "p4", len |-> 1, data_type |-> "Fp32"],
      [ptr |-> "p5", len |-> 0, data_type |-> "Uint8"],
      [ptr |-> "p6", len |-> 0, data_type |-> "Bytes"] }

\* Values of one dimension: dynamic (-1), small, 2^16 and 2^30.
DimVals == { -1, 2, 65536, 1073741824 }

RECURSIVE SeqsUpTo(_, _)
SeqsUpTo(S, n) ==
    IF n = 0 THEN { << >> }
    ELSE LET shorter == SeqsUpTo(S, n - 1)
         IN  shorter \cup { Append(q, x) : q \in shorter, x \in S }

\* Dimension lists a caller may pass to add_input_with_dims.
DimLists == SeqsUpTo(DimVals, MaxDims)

\* The few of them used while a whole Request is built.
BuildDims == { << 2 >>, << 65536, 65536 >> }

\* Option<T>: None, or Some(v) with v = Unwrap(Some(v)).
None == << >>

Some(v) == << v >>

Unwrap(option) == option[1]

\* The name field of a call that takes no name.
NoName == "-"

(***************************************************************************)
(* State.                                                                  *)
(***************************************************************************)
VARIABLES
    \* --- the Request (request.rs) and the build
    model_known,       \* Server::models holds the Request's model_name
    overflow_checks,   \* the build panics on integer overflow (debug profile)
    state,             \* custody of the Request value
    input,             \* Request::input, name -> Buffer
    custom_allocator,  \* Request::custom_allocator.is_some()
    native_inputs,     \* inputs registered on the native request handle
    request_deleted,   \* number of TRITONSERVER_InferenceRequestDelete calls
    ret,               \* the last call of the Request API and what it returned
    \* --- a Buffer of memory.rs and the build it is compiled in
    gpu_feature,       \* the build has the gpu feature
    mem_buffer,        \* the Buffer value, once one is made
    mem_heap,          \* the bytes of the allocation Buffer::ptr points to
    mem_slice,         \* the last slice passed to Buffer::from or copy_from_slice
    mem_ret,           \* the last call of the Buffer API and what it returned
    \* --- the response allocator bridge (allocator.rs: Inner)
    alloc_called,      \* Inner::alloc_called
    returned_buffers,  \* Inner::returned_buffers
    output_buffers,    \* Inner::output_buffers, name -> Buffer
    release_items,     \* the boxed ReleaseItems the engine holds, name -> Buffer
    last_alloc,        \* the last alloc callback: its arguments and its outcome
    allocated_buffer,  \* per output: the Buffer allocate returned to alloc
    \* --- the native engine, as seen through its callbacks
    eng_query,         \* the memory type the last query callback answered
    eng_alloc,         \* per output: alloc not called, returned a buffer, or failed
    releasing,         \* outputs whose release has inserted and not yet counted
    released,          \* outputs for which the engine invoked release
    freed,             \* per output buffer: how often its storage was freed
    response,          \* the native response: none yet, ok or error
    response_alive,    \* the native response handle is not deleted
    \* --- responce_wrapper / Response::new on the engine's thread
    cb_pc,             \* where the response callback is
    cb_result,         \* the Result it is building
    response_chan,     \* the oneshot channel of the response
    input_chan,        \* the oneshot channel of the input buffers
    \* --- the caller's side (utils.rs)
    fut_alive,         \* the ResponseFuture exists
    fut_result,        \* what ResponseFuture::poll returned as Ready
    input_release,     \* ResponseFuture::input_release.is_some()
    handles,           \* the InputRelease values get_input_release returned
    is_inferenced,     \* RequestCanceller::is_inferenced
    cancel_query,      \* the answer of TRITONSERVER_InferenceRequestIsCancelled
    cancel_calls,      \* number of TRITONSERVER_InferenceRequestCancel calls
    resp,              \* the caller's Response value
    ret_bufs,          \* the map Response::return_buffers returned
    \* --- the alloc and query callbacks on the engine's threads (allocator.rs)
    cb_thread,         \* per native thread: where its callback is, what it returns
    allocator_lock,    \* Inner::custom_allocator, the RwLock: holder and queue
    \* --- a Trace and its children (trace.rs)
    handlers,          \* the Arc<TraceCallbackItems> block: strong count, frees
    traces,            \* the native traces and the Rust Trace handle of each
    trace_ret          \* the last call or callback of trace.rs

memVars == << gpu_feature, mem_buffer, mem_heap, mem_slice, mem_ret >>

threadVars == << cb_thread, allocator_lock >>

traceVars == << handlers, traces, trace_ret >>

\* What the Request and its inference leave alone.
sideVars == << memVars, threadVars, traceVars >>

buildVars == << sideVars, model_known, overflow_checks, state, input,
                custom_allocator, native_inputs, request_deleted, ret >>

allocVars == << alloc_called, returned_buffers, output_buffers, release_items,
               last_alloc, allocated_buffer >>

engineVars == << eng_query, eng_alloc, releasing, released, freed, response,
                response_alive >>

callbackVars == << cb_pc, cb_result, response_chan, input_chan >>

callerVars == << fut_alive, fut_result, input_release, handles, is_inferenced,
                 cancel_query, cancel_calls, resp, ret_bufs >>

inferVars == << allocVars, engineVars, callbackVars, callerVars >>

vars == << buildVars, inferVars >>

\* The empty HashMap.
EmptyMap == << >>

\* A oneshot channel: no channel yet, open, holding a value, closed by the
\* sender without a value, or emptied by the receiver; rx: the receiver exists.
Channel(st, val, rx) == [st |-> st, val |-> val, rx |-> rx]

NoChannel == Channel("none", None, FALSE)

Return(op, name, buffer, dims, code, calls) ==
    [op |-> op, name |-> name, buffer |-> buffer, dims |-> dims,
     code |-> code, calls |-> calls]

(***************************************************************************)
(* request.rs: shape validation.                                           *)
(***************************************************************************)
\* shape.dims.iter().filter(|n| **n > 0)
PositiveDims(dims) == SelectSeq(dims, LAMBDA n : n > 0)

\* The exact product of a list of positive dimensions.
RECURSIVE Product(_)
Product(dims) ==
    IF dims = << >> THEN << 1 >>
    ELSE BigMul(ToLimbs(Head(dims)), Product(Tail(dims)))

\* product::<i64>() does not fit in an i64: the exact product is >= 2^63.
I64Overflows(p) == HighBits(p, 9) \/ (Len(p) >= 8 /\ p[8] >= 128)

\* assert_buffer_shape: "Ok", "InvalidArg", or "Panic" where the build checks
\* overflow and the arithmetic overflows.
assert_buffer_shape(shape, buffer, checks) ==
    IF shape.datatype # buffer.data_type THEN "InvalidArg"
    ELSE LET product == Product(PositiveDims(shape.dims))
             as_u32  == Truncate(product, 4)
             times   == BigMul(as_u32, ToLimbs(DataTypeSize(shape.datatype)))
             shape_size == Truncate(times, 4)
         IN  IF checks /\ (I64Overflows(product) \/ HighBits(times, 5)) THEN "Panic"
             ELSE IF BigGreater(shape_size, ToLimbs(buffer.len)) THEN "InvalidArg"
             ELSE "Ok"

\* Request::get_shape: the model's declared Shape of an input, or the error.
get_shape(known, source) ==
    IF ~known THEN [code |-> "NotFound"]
    ELSE IF \E s \in ModelInputs : s.name = source
         THEN [code |-> "Ok", shape |-> CHOOSE s \in ModelInputs : s.name = source]
         ELSE [code |-> "Internal"]

(***************************************************************************)
(* request.rs: building the Request.                                       *)
(***************************************************************************)
Range(f) == { f[k] : k \in DOMAIN f }

\* HashMap::insert
Insert(map, key, value) ==
    [k \in DOMAIN map \cup {key} |-> IF k = key THEN value ELSE map[k]]

\* HashMap::remove
Remove(map, key) == [k \in DOMAIN map \ {key} |-> map[k]]

\* add_input_inner that registers the input with the engine before it checks
\* the buffer against the shape.
AddInputNew_NativeBeforeCheck(op, input_name, buffer, policy, dims, native) ==
    LET model_shape == get_shape(model_known, input_name)
        shape == [name |-> input_name,
                  datatype |-> model_shape.shape.datatype,
                  dims |-> IF dims # None THEN Unwrap(dims)
                           ELSE model_shape.shape.dims]
        check == assert_buffer_shape(shape, buffer, overflow_checks)
        append == IF policy # None THEN "AppendInputDataWithHostPolicy"
                  ELSE "AppendInputData"
    IN  IF model_shape.code # "Ok"
        THEN /\ ret' = Return(op, input_name, Some(buffer), dims, model_shape.code, {})
             /\ UNCHANGED << state, input, native_inputs >>
        ELSE IF native = "AddInput"
        THEN /\ ret' = Return(op, input_name, Some(buffer), dims, "Native", {"AddInput"})
             /\ UNCHANGED << state, input, native_inputs >>
        ELSE IF check # "Ok"
        THEN /\ ret' = Return(op, input_name, Some(buffer), dims, check, {"AddInput"})
             /\ native_inputs' = native_inputs \cup {input_name}
             /\ UNCHANGED << state, input >>
        ELSE IF native = "AppendInputData"
        THEN /\ ret' = Return(op, input_name, Some(buffer), dims, "Native",
                              {"AddInput", append})
             /\ native_inputs' = native_inputs \cup {input_name}
             /\ UNCHANGED << state, input >>
        ELSE /\ ret' = Return(op, input_name, Some(buffer), dims, "Ok", {"AddInput", append})
             /\ native_inputs' = native_inputs \cup {input_name}
             /\ input' = Insert(input, input_name, buffer)
             /\ UNCHANGED state

\* add_input_inner once the name is known to be new: get_shape, the effective
\* shape, assert_buffer_shape, then the two native calls and the insertion.
\* native: which native call fails, if any.
AddInputNew(op, input_name, buffer, policy, dims, native) ==
    LET model_shape == get_shape(model_known, input_name)
        shape == [name |-> input_name,
                  datatype |-> model_shape.shape.datatype,
                  dims |-> IF dims # None THEN Unwrap(dims)
                           ELSE model_shape.shape.dims]
        check == assert_buffer_shape(shape, buffer, overflow_checks)
        append == IF policy # None THEN "AppendInputDataWithHostPolicy"
                  ELSE "AppendInputData"
    IN  IF model_shape.code # "Ok"
        THEN /\ ret' = Return(op, input_name, Some(buffer), dims, model_shape.code, {})
             /\ UNCHANGED << state, input, native_inputs >>
        ELSE IF check = "Panic"
        THEN /\ ret' = Return(op, input_name, Some(buffer), dims, "Panic", {})
             /\ state' = "Panicked"
             /\ UNCHANGED << input, native_inputs >>
        ELSE IF check # "Ok"
        THEN /\ ret' = Return(op, input_name, Some(buffer), dims, check, {})
             /\ UNCHANGED << state, input, native_inputs >>
        ELSE IF native = "AddInput"
        THEN /\ ret' = Return(op, input_name, Some(buffer), dims, "Native", {"AddInput"})
             /\ UNCHANGED << state, input, native_inputs >>
        ELSE IF native = "AppendInputData"
        THEN /\ ret' = Return(op, input_name, Some(buffer), dims, "Native",
                              {"AddInput", append})
             /\ native_inputs' = native_inputs \cup {input_name}
             /\ UNCHANGED << state, input >>
        ELSE /\ ret' = Return(op, input_name, Some(buffer), dims, "Ok", {"AddInput", append})
             /\ native_inputs' = native_inputs \cup {input_name}
             /\ input' = Insert(input, input_name, buffer)
             /\ UNCHANGED state

\* add_input_inner without its first check, the duplicate name.
AddInputInner_NoDuplicateCheck(op, input_name, buffer, policy, dims, native) ==
    /\ state = "Building"
    /\ buffer \notin Range(input)
    /\ AddInputNew(op, input_name, buffer, policy, dims, native)
    /\ UNCHANGED << sideVars, model_known, overflow_checks, custom_allocator,
                    request_deleted >>
    /\ UNCHANGED inferVars

\* Request::add_input_inner
AddInputInner(op, input_name, buffer, policy, dims, native) ==
    /\ state = "Building"
    /\ buffer \notin Range(input)
    /\ IF input_name \in DOMAIN input
       THEN /\ ret' = Return(op, input_name, Some(buffer), dims, "AlreadyExists", {})
            /\ UNCHANGED << state, input, native_inputs >>
       ELSE AddInputNew(op, input_name, buffer, policy, dims, native)
    /\ UNCHANGED << sideVars, model_known, overflow_checks, custom_allocator,
                    request_deleted >>
    /\ UNCHANGED inferVars

NativeAddOutcomes == { "none", "AddInput", "AppendInputData" }

Policies == { "policy" }

add_input ==
    \E n \in InputNames, b \in InputBuffers, native \in NativeAddOutcomes :
        AddInputInner("add_input", n, b, None, None, native)

add_input_with_dims(Dims, Buffers) ==
    \E n \in InputNames, b \in Buffers, d \in Dims, native \in NativeAddOutcomes :
        AddInputInner("add_input_with_dims", n, b, None, Some(d), native)

add_input_with_policy ==
    \E n \in InputNames, b \in InputBuffers, p \in Policies,
       native \in NativeAddOutcomes :
        AddInputInner("add_input_with_policy", n, b, Some(p), None, native)

add_input_with_policy_and_dims(Dims, Buffers) ==
    \E n \in InputNames, b \in Buffers, p \in Policies, d \in Dims,
       native \in NativeAddOutcomes :
        AddInputInner("add_input_with_policy_and_dims", n, b, Some(p), Some(d), native)

\* Request::add_allocator and Request::add_default_allocator
add_allocator ==
    /\ state = "Building"
    /\ custom_allocator' = TRUE
    /\ ret' = Return("add_allocator", NoName, None, None, "Ok", {})
    /\ UNCHANGED << sideVars, model_known, overflow_checks, state, input, native_inputs,
                    request_deleted >>
    /\ UNCHANGED inferVars

\* Which native call of remove_input fails, if any.
NativeRemoveOutcomes == { "none", "RemoveAllInputData", "RemoveInput" }

\* Request::remove_input: the entry leaves the input map first, then the two
\* native calls; the buffer taken from the map is returned by the last one and
\* dropped where a native call fails.
RemoveInput(name, native) ==
    /\ state = "Building"
    /\ IF name \notin DOMAIN input
       THEN /\ ret' = Return("remove_input", name, None, None, "InvalidArg", {})
            /\ UNCHANGED << input, native_inputs >>
       ELSE /\ input' = Remove(input, name)
            /\ IF native = "RemoveAllInputData"
               THEN /\ ret' = Return("remove_input", name, None, None, "Native",
                                     {"RemoveAllInputData"})
                    /\ UNCHANGED native_inputs
               ELSE IF native = "RemoveInput"
               THEN /\ ret' = Return("remove_input", name, None, None, "Native",
                                     {"RemoveAllInputData", "RemoveInput"})
                    /\ UNCHANGED native_inputs
               ELSE /\ ret' = Return("remove_input", name, Some(input[name]), None,
                                     "Ok", {"RemoveAllInputData", "RemoveInput"})
                    /\ native_inputs' = native_inputs \ {name}
    /\ UNCHANGED << sideVars, model_known, overflow_checks, state, custom_allocator,
                    request_deleted >>
    /\ UNCHANGED inferVars

(***************************************************************************)
(* request/infer.rs: Request::infer_async.                                 *)
(***************************************************************************)
\* The native calls of infer_async, in the order it issues them.
InferCalls ==
    << "AddRequestedOutput", "SetReleaseCallback", "ResponseAllocatorNew",
       "SetResponseCallback", "ServerInferAsync" >>

\* The calls issued up to and including the i-th.
CallsUpTo(i) == { InferCalls[k] : k \in 1..i }

\* Which native call of infer_async fails: 0 for none, else its position.
InferOutcomes == 0..Len(InferCalls)

\* An infer_async that borrows the Request: on Err the caller still has it.
InferFailsDropped_KeepsRequest(code, calls) ==
    /\ ret' = Return("infer_async", NoName, None, None, code, calls)
    /\ state' = "Building"
    /\ request_deleted' = request_deleted
    /\ UNCHANGED << input_chan, response_chan, fut_alive, input_release >>

\* infer_async returns Err(code) having issued `calls`; the Request value it
\* consumed is dropped on the way out (Drop for Request deletes the handle).
InferFailsDropped(code, calls) ==
    /\ ret' = Return("infer_async", NoName, None, None, code, calls)
    /\ state' = "Dropped"
    /\ request_deleted' = request_deleted + 1
    /\ UNCHANGED << input_chan, response_chan, fut_alive, input_release >>

\* infer_async returns Err after Box::into_raw and without Box::from_raw: the
\* boxed (Request, input_tx) stays behind; the receiver of the inputs is dropped.
InferFailsBoxed(calls) ==
    /\ ret' = Return("infer_async", NoName, None, None, "Native", calls)
    /\ state' = "Leaked"
    /\ input_chan' = Channel("open", None, FALSE)
    /\ UNCHANGED << request_deleted, response_chan, fut_alive, input_release >>

\* infer_async with add_outputs moved in front of the two precondition checks.
InferAsync_ChecksAfterOutputs(fail) ==
    /\ state = "Building"
    /\ IF fail = 1 \/ input = EmptyMap \/ ~custom_allocator
       THEN /\ InferFailsDropped(IF fail = 1 THEN "Native" ELSE "NotFound",
                                 CallsUpTo(1))
            /\ UNCHANGED custom_allocator
       ELSE /\ ret' = Return("infer_async", NoName, None, None, "Ok",
                             CallsUpTo(Len(InferCalls)))
            /\ state' = "InFlight"
            /\ custom_allocator' = FALSE
            /\ request_deleted' = request_deleted
            /\ input_chan' = Channel("open", None, TRUE)
            /\ response_chan' = Channel("open", None, TRUE)
            /\ fut_alive' = TRUE
            /\ input_release' = TRUE
    /\ UNCHANGED << sideVars, model_known, overflow_checks, input, native_inputs >>
    /\ UNCHANGED << allocVars, engineVars, cb_pc, cb_result >>
    /\ UNCHANGED << fut_result, handles, is_inferenced, cancel_query, cancel_calls,
                    resp, ret_bufs >>

\* Request::infer_async
InferAsync(fail) ==
    /\ state = "Building"
    /\ IF input = EmptyMap
       THEN InferFailsDropped("NotFound", {}) /\ UNCHANGED custom_allocator
       ELSE IF ~custom_allocator
       THEN InferFailsDropped("NotFound", {}) /\ UNCHANGED custom_allocator
       ELSE /\ custom_allocator' = FALSE
            /\ IF ~model_known
               THEN InferFailsDropped("NotFound", {})
               ELSE IF fail = 1 \/ fail = 2
               THEN InferFailsDropped("Native", CallsUpTo(fail))
               ELSE IF fail > 2
               THEN InferFailsBoxed(CallsUpTo(fail))
               ELSE /\ ret' = Return("infer_async", NoName, None, None, "Ok",
                                     CallsUpTo(Len(InferCalls)))
                    /\ state' = "InFlight"
                    /\ request_deleted' = request_deleted
                    /\ input_chan' = Channel("open", None, TRUE)
                    /\ response_chan' = Channel("open", None, TRUE)
                    /\ fut_alive' = TRUE
                    /\ input_release' = TRUE
    /\ UNCHANGED << sideVars, model_known, overflow_checks, input, native_inputs >>
    /\ UNCHANGED << allocVars, engineVars, cb_pc, cb_result >>
    /\ UNCHANGED << fut_result, handles, is_inferenced, cancel_query, cancel_calls,
                    resp, ret_bufs >>

infer_async == \E fail \in InferOutcomes : InferAsync(fail)

(***************************************************************************)
(* The Request while it is being built.                                    *)
(***************************************************************************)
\* The native threads of the engine.
Threads == 1..MaxThreads

\* No native thread is in the alloc or the query callback, and the RwLock
\* around the user Allocator is free.
NoCallback ==
    /\ cb_thread = [t \in Threads |-> [pc |-> "idle", kind |-> "none", error |-> None]]
    /\ allocator_lock = [holder |-> None, waiters |-> << >>]

\* No Trace has been created.
NoTrace ==
    /\ handlers = [strong |-> 0, freed |-> 0]
    /\ traces = << >>
    /\ trace_ret = [op |-> "none", trace |-> 0, code |-> "Ok"]

\* No Buffer of memory.rs is looked at; the build has the gpu feature.
NoBuffer ==
    /\ gpu_feature = TRUE
    /\ mem_buffer = None
    /\ mem_heap = << >>
    /\ mem_slice = None
    /\ mem_ret = [op |-> "none"]

\* Every part of one inference before infer_async has created it.
InferInit ==
    /\ alloc_called = FALSE
    /\ returned_buffers = 0
    /\ output_buffers = EmptyMap
    /\ release_items = EmptyMap
    /\ last_alloc = None
    /\ allocated_buffer = [o \in OutputNames |-> None]
    /\ eng_query = "none"
    /\ eng_alloc = [o \in OutputNames |-> "none"]
    /\ releasing = {}
    /\ released = {}
    /\ freed = [o \in OutputNames |-> 0]
    /\ response = "none"
    /\ response_alive = FALSE
    /\ cb_pc = "idle"
    /\ cb_result = None
    /\ response_chan = NoChannel
    /\ input_chan = NoChannel
    /\ fut_alive = FALSE
    /\ fut_result = None
    /\ input_release = FALSE
    /\ handles = << >>
    /\ is_inferenced = FALSE
    /\ cancel_query = "none"
    /\ cancel_calls = 0
    /\ resp = "none"
    /\ ret_bufs = None

\* Server::create_request has returned a Request (Request::new).
BuildInit ==
    /\ NoBuffer
    /\ NoCallback
    /\ NoTrace
    /\ model_known \in BOOLEAN
    /\ overflow_checks = FALSE
    /\ state = "Building"
    /\ input = EmptyMap
    /\ custom_allocator = FALSE
    /\ native_inputs = {}
    /\ request_deleted = 0
    /\ ret = Return("new", NoName, None, None, "Ok", {})
    /\ InferInit

BuildNext ==
    \/ add_input
    \/ add_input_with_dims(BuildDims, InputBuffers)
    \/ add_input_with_policy
    \/ add_input_with_policy_and_dims(BuildDims, InputBuffers)
    \/ add_allocator
    \/ \E n \in InputNames, native \in NativeRemoveOutcomes : RemoveInput(n, native)
    \/ infer_async

SpecBuild == BuildInit /\ [][BuildNext]_vars

(***************************************************************************)
(* One add_input*_with_dims call on a fresh Request, over every dimension  *)
(* list and buffer of the bounded sets and both build profiles.            *)
(***************************************************************************)
ShapeInit ==
    /\ NoBuffer
    /\ NoCallback
    /\ NoTrace
    /\ model_known = TRUE
    /\ overflow_checks \in BOOLEAN
    /\ state = "Building"
    /\ input = EmptyMap
    /\ custom_allocator = FALSE
    /\ native_inputs = {}
    /\ request_deleted = 0
    /\ ret = Return("new", NoName, None, None, "Ok", {})
    /\ InferInit

ShapeNext ==
    /\ ret.op = "new"
    /\ \/ add_input_with_dims(DimLists, ShapeBuffers)
       \/ add_input_with_policy_and_dims(DimLists, ShapeBuffers)

SpecShape == ShapeInit /\ [][ShapeNext]_vars

(***************************************************************************)
(* One inference.  The native engine is free-threaded: it calls alloc once *)
(* per output it produces, then hands the response to responce_wrapper,    *)
(* calls release for every buffer it was given once the response handle is *)
(* deleted, and calls release_callback once when it is done with the       *)
(* request.                                                                *)
(***************************************************************************)
\* The engine calling back on a Request that is still being built.
Running_BeforeInferAsync == state \in { "Building", "InFlight", "Released" }

\* The engine has the request: ServerInferAsync succeeded, nothing aborted.
Running == state \in { "InFlight", "Released" }

\* outputs_count as u32, the buffers_count of Response::new (infer.rs:81, 212).
buffers_count == Cardinality(ModelOutputs)

\* What the engine asks of alloc for an output.
Requested == [byte_size |-> 4, memory_type |-> "Cpu"]

\* What the user Allocator::allocate may return for output o: an error, a
\* larger pinned buffer, a buffer that is too small, a buffer on the device.
UserResults(o) ==
    { None,
      Some([ptr |-> o, len |-> Requested.byte_size + 4, memory_type |-> "Pinned",
            owned |-> TRUE]),
      Some([ptr |-> o, len |-> Requested.byte_size - 1, memory_type |-> "Cpu",
            owned |-> TRUE]),
      Some([ptr |-> o, len |-> Requested.byte_size, memory_type |-> "Gpu",
            owned |-> TRUE]) }

\* The two assertions of alloc on the user's buffer (allocator.rs:175-186).
AllocAborts(users_buffer, byte_size, mem_type) ==
    \/ ~(users_buffer.len >= byte_size)
    \/ (mem_type = "Cpu" /\ users_buffer.memory_type = "Gpu")
    \/ (mem_type = "Gpu" /\ users_buffer.memory_type = "Cpu")

\* memory.rs Drop for Buffer ignoring the owned flag.
Drop_IgnoresOwned(buffer) ==
    /\ buffer.ptr # "null"
    /\ (buffer.memory_type = "Cpu" \/ gpu_feature)

\* memory.rs Drop for Buffer: whether the drop frees the storage, which it does
\* for an owned Buffer with a pointer (other than host memory only in a build
\* with the gpu feature).
Drop(buffer) ==
    /\ buffer.owned
    /\ buffer.ptr # "null"
    /\ (buffer.memory_type = "Cpu" \/ gpu_feature)

\* freed after the drop of the given Buffers.
Free(buffers) ==
    [p \in OutputNames |->
        freed[p] + Cardinality({ b \in buffers : b.ptr = p /\ Drop(b) })]

\* response.rs InferenceResponseWrapper::output: the Output of tensor o, whose
\* Buffer points into the storage the engine was given and is not owned.
output(o) ==
    [ptr |-> release_items[o].ptr, len |-> Requested.byte_size,
     memory_type |-> release_items[o].memory_type, owned |-> FALSE]

\* Response::outputs, while the native response is alive.
Outputs == { output(o) : o \in DOMAIN release_items }

\* The Buffers of a Result<Response, InferenceError> that is there: the
\* Outputs of the Response or the output_buffers of the InferenceError.
BuffersOf(result) ==
    IF result = None THEN {}
    ELSE IF Unwrap(result).kind = "Ok" THEN Outputs
    ELSE { Unwrap(result).output_buffers[k] :
               k \in DOMAIN Unwrap(result).output_buffers }

\* An Arc of the allocator's Inner is held outside the release callbacks: by
\* the items of the response callback, by Response::new, by a Response or by
\* return_buffers.
AllocatorHeld ==
    \/ response = "none"
    \/ cb_pc \in { "spin", "drain" }
    \/ response_alive
    \/ resp \in { "rb_spin", "rb_drain" }

\* The datatype hint of output o (Inner::datatype_hints): its declared type.
DatatypeHint(o) == (CHOOSE m \in ModelOutputs : m.name = o).datatype

\* The alloc request of one inference for output o.
RequestedOf(o) ==
    [byte_size |-> Requested.byte_size, memory_type |-> Requested.memory_type,
     data_type |-> DatatypeHint(o)]

\* The record of an alloc call.
AllocCall(o, req, users, outcome) ==
    [name |-> o, byte_size |-> req.byte_size, memory_type |-> req.memory_type,
     data_type |-> req.data_type, users |-> users, outcome |-> outcome]

\* allocator.rs: the alloc callback for output o; req: what the engine asks
\* for and the datatype hint; users: the buffer allocate returned, or None for
\* its Err.
alloc(o, req, users) ==
    /\ Running
    /\ response = "none"
    /\ eng_alloc[o] = "none"
    /\ alloc_called' = TRUE
    /\ IF users = None
       THEN /\ eng_alloc' = [eng_alloc EXCEPT ![o] = "err"]
            /\ last_alloc' = Some(AllocCall(o, req, users, "err"))
            /\ UNCHANGED << release_items, allocated_buffer, state >>
       ELSE IF AllocAborts(Unwrap(users), req.byte_size, req.memory_type)
       THEN /\ state' = "Aborted"
            /\ last_alloc' = Some(AllocCall(o, req, users, "abort"))
            /\ UNCHANGED << release_items, allocated_buffer, eng_alloc >>
       ELSE /\ eng_alloc' = [eng_alloc EXCEPT ![o] = "ok"]
            /\ release_items' = Insert(release_items, o, Unwrap(users))
            /\ allocated_buffer' = [allocated_buffer EXCEPT ![o] = users]
            /\ last_alloc' = Some(AllocCall(o, req, users, "ok"))
            /\ UNCHANGED state
    /\ UNCHANGED << sideVars, model_known, overflow_checks, input, custom_allocator,
                    native_inputs, request_deleted, ret >>
    /\ UNCHANGED << returned_buffers, output_buffers >>
    /\ UNCHANGED << eng_query, releasing, released, freed, response, response_alive >>
    /\ UNCHANGED << callbackVars, callerVars >>

\* What Allocator::pre_allocation_query may answer.
QueryAnswers == { "Cpu", "Gpu" }

\* The query callback counting itself as a released buffer.
query_CountsBuffer(answer) ==
    /\ Running
    /\ response = "none"
    /\ eng_query' = answer
    /\ returned_buffers' = returned_buffers + 1
    /\ UNCHANGED << buildVars, alloc_called, output_buffers, release_items, last_alloc,
                    allocated_buffer, eng_alloc, releasing, released, freed, response,
                    response_alive, callbackVars, callerVars >>

\* allocator.rs: the query callback, which the engine may call before it
\* allocates when the user Allocator enables queries: the answer of
\* pre_allocation_query is written to *memory_type.
query(answer) ==
    /\ Running
    /\ response = "none"
    /\ eng_query' = answer
    /\ UNCHANGED << buildVars, allocVars, eng_alloc, releasing, released, freed,
                    response, response_alive, callbackVars, callerVars >>

\* release handing back a Buffer cut to the byte size the engine reports.
ReleaseInsert_EngineSize(o) ==
    /\ Running
    /\ o \in DOMAIN release_items
    /\ response # "none"
    /\ ~response_alive
    /\ output_buffers' = Insert(output_buffers, o,
                                [release_items[o] EXCEPT !.len = Requested.byte_size])
    /\ release_items' = Remove(release_items, o)
    /\ releasing' = releasing \cup {o}
    /\ released' = released \cup {o}
    /\ UNCHANGED << buildVars, alloc_called, returned_buffers, last_alloc,
                    allocated_buffer, eng_query, eng_alloc, freed, response,
                    response_alive, callbackVars, callerVars >>

\* allocator.rs: the release callback, up to the end of the insertion: the
\* Buffer of the boxed ReleaseItems goes into output_buffers under its name.
ReleaseInsert(o) ==
    /\ Running
    /\ o \in DOMAIN release_items
    /\ response # "none"
    /\ ~response_alive
    /\ output_buffers' = Insert(output_buffers, o, release_items[o])
    /\ release_items' = Remove(release_items, o)
    /\ releasing' = releasing \cup {o}
    /\ released' = released \cup {o}
    /\ UNCHANGED << buildVars, alloc_called, returned_buffers, last_alloc,
                    allocated_buffer, eng_query, eng_alloc, freed, response,
                    response_alive, callbackVars, callerVars >>

\* release adding two to the counter of released buffers.
ReleaseCount_CountsTwice(o) ==
    /\ Running
    /\ o \in releasing
    /\ returned_buffers' = returned_buffers + 2
    /\ releasing' = releasing \ {o}
    /\ IF release_items = EmptyMap /\ releasing = {o} /\ ~AllocatorHeld
       THEN /\ freed' = Free(Range(output_buffers))
            /\ output_buffers' = EmptyMap
       ELSE UNCHANGED << freed, output_buffers >>
    /\ UNCHANGED << buildVars, alloc_called, release_items, last_alloc,
                    allocated_buffer, eng_query, eng_alloc, released, response,
                    response_alive, callbackVars, callerVars >>

\* allocator.rs: the release callback, from returned_buffers.fetch_add(1) to
\* its end, where its Allocator is dropped: if that is the last Arc of Inner,
\* Inner is dropped and with it the buffers still in output_buffers.
ReleaseCount(o) ==
    /\ Running
    /\ o \in releasing
    /\ returned_buffers' = returned_buffers + 1
    /\ releasing' = releasing \ {o}
    /\ IF release_items = EmptyMap /\ releasing = {o} /\ ~AllocatorHeld
       THEN /\ freed' = Free(Range(output_buffers))
            /\ output_buffers' = EmptyMap
       ELSE UNCHANGED << freed, output_buffers >>
    /\ UNCHANGED << buildVars, alloc_called, release_items, last_alloc,
                    allocated_buffer, eng_query, eng_alloc, released, response,
                    response_alive, callbackVars, callerVars >>

\* A Result<Response, InferenceError> or Result<HashMap, Error>.
Ok(map) == [kind |-> "Ok", code |-> "Ok", output_buffers |-> map]

Err(code, map) == [kind |-> "Err", code |-> code, output_buffers |-> map]

\* What of Response::new fails on the success path, if anything.
ReadOutcomes == { "none", "output_count", "output", "parameter" }

\* infer.rs responce_wrapper, into response.rs Response::new: the engine hands
\* over a response; on an engine-reported error the wrapper is dropped (the
\* native response deleted) and the released-buffer wait begins; otherwise the
\* outputs and parameters are read, and a failed read returns the bare Error
\* and drops the Outputs read so far.
responce_wrapper(kind, read) ==
    /\ Running
    /\ response = "none"
    /\ kind = "ok" => \A o \in OutputNames : eng_alloc[o] # "err"
    /\ response' = kind
    /\ IF kind = "error"
       THEN /\ response_alive' = FALSE
            /\ cb_pc' = IF alloc_called THEN "spin" ELSE "drain"
            /\ cb_result' = None
       ELSE IF read # "none"
       THEN /\ response_alive' = FALSE
            /\ cb_pc' = "send"
            /\ cb_result' = Some(Err("Native", EmptyMap))
       ELSE /\ response_alive' = TRUE
            /\ cb_pc' = "send"
            /\ cb_result' = Some(Ok(EmptyMap))
    /\ freed' = IF kind = "ok" /\ read \in { "output", "parameter" }
                THEN Free(Outputs) ELSE freed
    /\ UNCHANGED << buildVars, allocVars, eng_query, eng_alloc, releasing, released,
                    response_chan, input_chan, callerVars >>

\* The wait of Response::new: while returned_buffers < buffers_count spin.
NewSpinExit ==
    /\ Running
    /\ cb_pc = "spin"
    /\ ~(returned_buffers < buffers_count)
    /\ cb_pc' = "drain"
    /\ UNCHANGED << buildVars, allocVars, engineVars, cb_result, response_chan,
                    input_chan, callerVars >>

\* Response::new: drain output_buffers into the InferenceError.
NewDrain ==
    /\ Running
    /\ cb_pc = "drain"
    /\ cb_result' = Some(Err("Engine", output_buffers))
    /\ output_buffers' = EmptyMap
    /\ cb_pc' = "send"
    /\ UNCHANGED << buildVars, alloc_called, returned_buffers, release_items,
                    last_alloc, allocated_buffer, engineVars, response_chan, input_chan,
                    callerVars >>

\* responce_wrapper: response_tx.send; without a receiver the result is
\* dropped, and with it a Response and its native handle.
SendResponse ==
    /\ Running
    /\ cb_pc = "send"
    /\ cb_pc' = "done"
    /\ cb_result' = None
    /\ IF response_chan.rx
       THEN /\ response_chan' = Channel("full", cb_result, TRUE)
            /\ UNCHANGED << response_alive, freed >>
       ELSE /\ response_alive' = FALSE
            /\ freed' = Free(BuffersOf(cb_result))
            /\ UNCHANGED response_chan
    /\ UNCHANGED << buildVars, allocVars, eng_query, eng_alloc, releasing, released,
                    response, input_chan, callerVars >>

\* release_callback sending the Request's map after the swap, that is, emptied.
release_callback_SendsAfterSwap ==
    /\ state = "InFlight"
    /\ state' = "Released"
    /\ input' = EmptyMap
    /\ request_deleted' = request_deleted + 1
    /\ input_chan' = IF input_chan.rx THEN Channel("full", Some(EmptyMap), TRUE)
                     ELSE input_chan
    /\ UNCHANGED << sideVars, model_known, overflow_checks, custom_allocator,
                    native_inputs, ret >>
    /\ UNCHANGED << allocVars, engineVars, cb_pc, cb_result, response_chan,
                    callerVars >>

\* infer.rs release_callback: the engine gives the Request back; its inputs go
\* to the InputRelease if one is left to receive them; the Request is dropped.
release_callback ==
    /\ state = "InFlight"
    /\ state' = "Released"
    /\ input' = EmptyMap
    /\ request_deleted' = request_deleted + 1
    /\ input_chan' = IF input_chan.rx THEN Channel("full", Some(input), TRUE)
                     ELSE input_chan
    /\ UNCHANGED << sideVars, model_known, overflow_checks, custom_allocator,
                    native_inputs, ret >>
    /\ UNCHANGED << allocVars, engineVars, cb_pc, cb_result, response_chan,
                    callerVars >>

(***************************************************************************)
(* request/utils.rs: the caller's futures.                                 *)
(***************************************************************************)
\* oneshot::Receiver::poll is Ready: a value was sent or the sender is gone.
RecvReady(chan) == chan.st \in { "full", "closed" }

\* What the ready receiver yields: Some(value), or None for RecvError.
Recv(chan) == IF chan.st = "full" THEN chan.val ELSE None

\* A channel whose receiver is dropped, and with it a value not yet received.
DropReceiver(chan) ==
    Channel(IF chan.st = "full" THEN "taken" ELSE chan.st, None, FALSE)

\* The channel holds an Ok(Response) nobody has received.
HoldsResponse(chan) == chan.st = "full" /\ Unwrap(chan.val).kind = "Ok"

\* ResponseFuture::poll that expects a value from the receiver and panics on
\* its RecvError.
Poll_PanicsOnRecvError ==
    /\ Running
    /\ fut_alive
    /\ fut_result = None
    /\ RecvReady(response_chan)
    /\ IF Recv(response_chan) # None
       THEN /\ fut_result' = Recv(response_chan)
            /\ is_inferenced' = TRUE
            /\ UNCHANGED state
       ELSE /\ state' = "Panicked"
            /\ UNCHANGED << fut_result, is_inferenced >>
    /\ response_chan' = Channel("taken", None, TRUE)
    /\ resp' = IF HoldsResponse(response_chan) THEN "held" ELSE resp
    /\ UNCHANGED << sideVars, model_known, overflow_checks, input, custom_allocator,
                    native_inputs, request_deleted, ret >>
    /\ UNCHANGED << allocVars, engineVars, cb_pc, cb_result, input_chan >>
    /\ UNCHANGED << fut_alive, input_release, handles, cancel_query, cancel_calls,
                    ret_bufs >>

\* ResponseFuture::poll returning Ready (a Pending poll changes nothing).
Poll ==
    /\ Running
    /\ fut_alive
    /\ fut_result = None
    /\ RecvReady(response_chan)
    /\ fut_result' = IF Recv(response_chan) # None THEN Recv(response_chan)
                     ELSE Some(Err("Internal", EmptyMap))
    /\ response_chan' = Channel("taken", None, TRUE)
    /\ is_inferenced' = TRUE
    /\ resp' = IF HoldsResponse(response_chan) THEN "held" ELSE resp
    /\ UNCHANGED << buildVars, allocVars, engineVars, cb_pc, cb_result, input_chan >>
    /\ UNCHANGED << fut_alive, input_release, handles, cancel_query, cancel_calls,
                    ret_bufs >>

\* The answers TRITONSERVER_InferenceRequestIsCancelled can give: not cancelled
\* or an error; on a request handle that release_callback has deleted the call
\* reads freed memory and can answer anything.
CancelAnswers ==
    IF state = "Released" THEN { "false", "true", "error" } ELSE { "false", "error" }

\* Drop of the ResponseFuture whose canceller does not look at the answer of
\* the is-cancelled query.
DropFuture_IgnoresAnswer(answer) ==
    /\ Running
    /\ fut_alive
    /\ fut_alive' = FALSE
    /\ response_chan' = DropReceiver(response_chan)
    /\ freed' = Free(BuffersOf(response_chan.val))
    /\ response_alive' = IF HoldsResponse(response_chan) THEN FALSE ELSE response_alive
    /\ resp' = IF HoldsResponse(response_chan) THEN "dropped" ELSE resp
    /\ input_release' = FALSE
    /\ input_chan' = IF input_release THEN DropReceiver(input_chan) ELSE input_chan
    /\ IF is_inferenced
       THEN UNCHANGED << cancel_query, cancel_calls >>
       ELSE /\ cancel_query' = answer
            /\ cancel_calls' = cancel_calls + 1
    /\ UNCHANGED << buildVars, allocVars, eng_query, eng_alloc, releasing, released,
                    response, cb_pc, cb_result >>
    /\ UNCHANGED << fut_result, handles, is_inferenced, ret_bufs >>

\* Drop of the ResponseFuture: its receiver (and a Response waiting in the
\* channel), its InputRelease if still there, and the RequestCanceller, whose
\* drop asks the engine and cancels unless is_inferenced is set.
DropFuture(answer) ==
    /\ Running
    /\ fut_alive
    /\ fut_alive' = FALSE
    /\ response_chan' = DropReceiver(response_chan)
    /\ freed' = Free(BuffersOf(response_chan.val))
    /\ response_alive' = IF HoldsResponse(response_chan) THEN FALSE ELSE response_alive
    /\ resp' = IF HoldsResponse(response_chan) THEN "dropped" ELSE resp
    /\ input_release' = FALSE
    /\ input_chan' = IF input_release THEN DropReceiver(input_chan) ELSE input_chan
    /\ IF is_inferenced
       THEN UNCHANGED << cancel_query, cancel_calls >>
       ELSE /\ cancel_query' = answer
            /\ cancel_calls' = IF answer = "false" THEN cancel_calls + 1
                               ELSE cancel_calls
    /\ UNCHANGED << buildVars, allocVars, eng_query, eng_alloc, releasing, released,
                    response, cb_pc, cb_result >>
    /\ UNCHANGED << fut_result, handles, is_inferenced, ret_bufs >>

\* ResponseFuture::blocking_recv: waits for the channel, sets is_inferenced and
\* consumes the future, whose canceller therefore never cancels.
blocking_recv ==
    /\ Running
    /\ fut_alive
    /\ fut_result = None
    /\ RecvReady(response_chan)
    /\ fut_result' = IF Recv(response_chan) # None THEN Recv(response_chan)
                     ELSE Some(Err("Internal", EmptyMap))
    /\ response_chan' = Channel("taken", None, FALSE)
    /\ is_inferenced' = TRUE
    /\ resp' = IF HoldsResponse(response_chan) THEN "held" ELSE resp
    /\ fut_alive' = FALSE
    /\ input_release' = FALSE
    /\ input_chan' = IF input_release THEN DropReceiver(input_chan) ELSE input_chan
    /\ UNCHANGED << buildVars, allocVars, engineVars, cb_pc, cb_result >>
    /\ UNCHANGED << handles, cancel_query, cancel_calls, ret_bufs >>

\* An InputRelease the caller holds: the one of infer_async ("real") or one
\* made by a later get_input_release ("empty"); result: what its poll returned.
Handle(kind) == [kind |-> kind, result |-> None]

\* ResponseFuture::get_input_release with a second call that hands out the
\* sender's end of a channel on which an empty map was sent.
GetInputRelease_SendsEmptyMap ==
    /\ Running
    /\ fut_alive
    /\ Len(handles) < MaxGets
    /\ handles' = Append(handles, Handle(IF input_release THEN "real" ELSE "sent"))
    /\ input_release' = FALSE
    /\ UNCHANGED << buildVars, allocVars, engineVars, callbackVars >>
    /\ UNCHANGED << fut_alive, fut_result, is_inferenced, cancel_query, cancel_calls,
                    resp, ret_bufs >>

\* ResponseFuture::get_input_release
GetInputRelease ==
    /\ Running
    /\ fut_alive
    /\ Len(handles) < MaxGets
    /\ handles' = Append(handles, Handle(IF input_release THEN "real" ELSE "empty"))
    /\ input_release' = FALSE
    /\ UNCHANGED << buildVars, allocVars, engineVars, callbackVars >>
    /\ UNCHANGED << fut_alive, fut_result, is_inferenced, cancel_query, cancel_calls,
                    resp, ret_bufs >>

\* The channel behind a handle: input_chan, or for a later handle the channel
\* of `let (_, rx) = oneshot::channel()`, whose sender is dropped at once.
HandleChannel(h) ==
    CASE h.kind = "real"  -> input_chan
      [] h.kind = "empty" -> Channel("closed", None, TRUE)
      [] h.kind = "sent"  -> Channel("full", Some(EmptyMap), TRUE)

\* Result<HashMap<String, Buffer>, Error> of an InputRelease.
InputsOk(map) == [kind |-> "Ok", code |-> "Ok", buffers |-> map]

InputsErr(code) == [kind |-> "Err", code |-> code, buffers |-> EmptyMap]

\* InputRelease::poll returning Ready, and InputRelease::blocking_recv.
PollInputRelease(i) ==
    /\ Running
    /\ handles[i].result = None
    /\ RecvReady(HandleChannel(handles[i]))
    /\ handles' = [handles EXCEPT ![i].result =
                      IF Recv(HandleChannel(handles[i])) # None
                      THEN Some(InputsOk(Unwrap(Recv(HandleChannel(handles[i])))))
                      ELSE Some(InputsErr("Internal"))]
    /\ input_chan' = IF handles[i].kind = "real" THEN Channel("taken", None, TRUE)
                     ELSE input_chan
    /\ UNCHANGED << buildVars, allocVars, engineVars, cb_pc, cb_result, response_chan >>
    /\ UNCHANGED << fut_alive, fut_result, input_release, is_inferenced, cancel_query,
                    cancel_calls, resp, ret_bufs >>

(***************************************************************************)
(* response.rs: the caller's Response.                                     *)
(***************************************************************************)
\* return_buffers entering its wait with the wrapper still held, the native
\* response not deleted.
ReturnBuffers_KeepsWrapper ==
    /\ Running
    /\ resp = "held"
    /\ resp' = "rb_spin"
    /\ freed' = Free(Outputs)
    /\ UNCHANGED response_alive
    /\ UNCHANGED << buildVars, allocVars, eng_query, eng_alloc, releasing, released,
                    response, callbackVars >>
    /\ UNCHANGED << fut_alive, fut_result, input_release, handles, is_inferenced,
                    cancel_query, cancel_calls, ret_bufs >>

\* Response::return_buffers, up to the wait: outputs and wrapper are dropped,
\* which deletes the native response.
ReturnBuffers ==
    /\ Running
    /\ resp = "held"
    /\ resp' = "rb_spin"
    /\ freed' = Free(Outputs)
    /\ response_alive' = FALSE
    /\ UNCHANGED << buildVars, allocVars, eng_query, eng_alloc, releasing, released,
                    response, callbackVars >>
    /\ UNCHANGED << fut_alive, fut_result, input_release, handles, is_inferenced,
                    cancel_query, cancel_calls, ret_bufs >>

\* return_buffers leaving its wait one released buffer early.
ReturnSpinExit_OneShort ==
    /\ Running
    /\ resp = "rb_spin"
    /\ ~(returned_buffers + 1 < buffers_count)
    /\ resp' = "rb_drain"
    /\ UNCHANGED << buildVars, allocVars, engineVars, callbackVars >>
    /\ UNCHANGED << fut_alive, fut_result, input_release, handles, is_inferenced,
                    cancel_query, cancel_calls, ret_bufs >>

\* The wait of return_buffers: while returned_buffers < buffers_count spin.
ReturnSpinExit ==
    /\ Running
    /\ resp = "rb_spin"
    /\ ~(returned_buffers < buffers_count)
    /\ resp' = "rb_drain"
    /\ UNCHANGED << buildVars, allocVars, engineVars, callbackVars >>
    /\ UNCHANGED << fut_alive, fut_result, input_release, handles, is_inferenced,
                    cancel_query, cancel_calls, ret_bufs >>

\* return_buffers: drain output_buffers and return the map.
ReturnDrain ==
    /\ Running
    /\ resp = "rb_drain"
    /\ ret_bufs' = Some(output_buffers)
    /\ output_buffers' = EmptyMap
    /\ resp' = "returned"
    /\ UNCHANGED << buildVars, alloc_called, returned_buffers, release_items,
                    last_alloc, allocated_buffer, engineVars, callbackVars >>
    /\ UNCHANGED << fut_alive, fut_result, input_release, handles, is_inferenced,
                    cancel_query, cancel_calls >>

\* Drop of the Response without return_buffers: its Outputs, the wrapper and
\* with it the native response, and its Arc of the allocator.
DropResponse ==
    /\ Running
    /\ resp = "held"
    /\ resp' = "dropped"
    /\ freed' = Free(Outputs)
    /\ response_alive' = FALSE
    /\ UNCHANGED << buildVars, allocVars, eng_query, eng_alloc, releasing, released,
                    response, callbackVars >>
    /\ UNCHANGED << fut_alive, fut_result, input_release, handles, is_inferenced,
                    cancel_query, cancel_calls, ret_bufs >>

(***************************************************************************)
(* One inference, from a Request that is ready for infer_async.            *)
(***************************************************************************)
\* A built Request: one input attached, an Allocator added.
Init ==
    /\ NoBuffer
    /\ NoCallback
    /\ NoTrace
    /\ model_known = TRUE
    /\ overflow_checks = FALSE
    /\ state = "Building"
    /\ input = [n \in {"IN0"} |-> [ptr |-> "p1", len |-> 3, data_type |-> "Uint8"]]
    /\ custom_allocator = TRUE
    /\ native_inputs = {"IN0"}
    /\ request_deleted = 0
    /\ ret = Return("add_allocator", NoName, None, None, "Ok", {})
    /\ InferInit

Next ==
    \/ infer_async
    \/ \E o \in OutputNames : \E users \in UserResults(o) :
           alloc(o, RequestedOf(o), users)
    \/ \E answer \in QueryAnswers : query(answer)
    \/ \E kind \in { "ok", "error" }, read \in ReadOutcomes : responce_wrapper(kind, read)
    \/ NewSpinExit
    \/ NewDrain
    \/ SendResponse
    \/ \E o \in OutputNames : ReleaseInsert(o)
    \/ \E o \in OutputNames : ReleaseCount(o)
    \/ release_callback
    \/ Poll
    \/ blocking_recv
    \/ \E answer \in CancelAnswers : DropFuture(answer)
    \/ GetInputRelease
    \/ \E i \in DOMAIN handles : PollInputRelease(i)
    \/ ReturnBuffers
    \/ ReturnSpinExit
    \/ ReturnDrain
    \/ DropResponse

Spec == Init /\ [][Next]_vars

\* The threads that run the code keep running: the engine produces a response,
\* releases what it holds and gives the request back; the callback thread and
\* the thread inside return_buffers take their next step when they can; the
\* caller keeps awaiting the future and the InputReleases it holds.  Whether
\* the caller drops a future or a Response, or asks for its buffers, is its
\* choice.
Fairness ==
    /\ WF_vars(\E kind \in { "ok", "error" }, read \in ReadOutcomes :
                   responce_wrapper(kind, read))
    /\ WF_vars(NewSpinExit)
    /\ WF_vars(NewDrain)
    /\ WF_vars(SendResponse)
    /\ WF_vars(\E o \in OutputNames : ReleaseInsert(o))
    /\ WF_vars(\E o \in OutputNames : ReleaseCount(o))
    /\ WF_vars(release_callback)
    /\ WF_vars(Poll)
    /\ WF_vars(\E i \in DOMAIN handles : PollInputRelease(i))
    /\ WF_vars(ReturnSpinExit)
    /\ WF_vars(ReturnDrain)

FairSpec == Init /\ [][Next]_vars /\ Fairness

(***************************************************************************)
(* One alloc callback of an inference in flight, over every request the    *)
(* engine may make and every answer of the user Allocator, which is either *)
(* a custom one or the DefaultAllocator.                                   *)
(***************************************************************************)
\* memory.rs: MemoryType
MemoryTypes == { "Cpu", "Pinned", "Gpu" }

\* Datatype hints: one-byte and four-byte elements, and the variable-size type.
DataTypes == { "Uint8", "Fp32", "Bytes" }

\* Requested byte sizes: none, a multiple of every element size, one that is
\* not, and 2^24 + 1, the first integer an f32 cannot hold.
ByteSizes == { 0, 4, 5, 2^24 + 1 }

AllocRequests ==
    [byte_size : ByteSizes, memory_type : MemoryTypes, data_type : DataTypes]

\* Byte lengths of the buffers a custom Allocator returns.
BufferLens == { 0, 3, 4, 8 }

\* What a custom Allocator::allocate may return for output o.
CustomResults(o) ==
    { None } \cup
    { Some([ptr |-> o, len |-> l, memory_type |-> m]) :
        l \in BufferLens, m \in MemoryTypes }

\* `n as f32` for 0 <= n < 2^31: n rounded to a 24-bit significand, ties to even.
AsF32(n) ==
    LET k    == CHOOSE j \in 0..7 :
                    /\ n \div 2^j < 2^24
                    /\ \A i \in 0..(j - 1) : n \div 2^i >= 2^24
        unit == 2^k
        q    == n \div unit
        r    == n % unit
        up   == 2 * r > unit \/ (2 * r = unit /\ q % 2 = 1)
    IN  (IF up THEN q + 1 ELSE q) * unit

\* (byte_size as f32 / data_type_size as f32).ceil() as usize.  The element
\* sizes are 0 or powers of two, so the division is exact; x / 0.0 is +inf,
\* which the cast saturates (here at the largest integer of the model), and
\* 0.0 / 0.0 is NaN, which the cast turns into 0.
SampleCount(byte_size, data_type_size) ==
    IF data_type_size = 0
    THEN (IF byte_size = 0 THEN 0 ELSE 2147483647)
    ELSE (AsF32(byte_size) + data_type_size - 1) \div data_type_size

\* memory.rs Buffer::alloc_with_data_type, in a build with the gpu feature: a
\* buffer of count * size bytes; an allocation of zero bytes may yield a null
\* pointer, which is returned as an error.
alloc_with_data_type(count, memory_type, data_type) ==
    LET size == count * DataTypeSize(data_type)
        buffer == [ptr |-> "new", len |-> size, data_type |-> data_type,
                   memory_type |-> memory_type]
    IN  IF size = 0 THEN { Some(buffer), None } ELSE { Some(buffer) }

\* request.rs DefaultAllocator::allocate: the results it can give.
DefaultAllocator_allocate(requested_mem_type, byte_size, data_type) ==
    alloc_with_data_type(SampleCount(byte_size, DataTypeSize(data_type)),
                         requested_mem_type, data_type)

\* alloc, the Request having a custom Allocator.
alloc_custom ==
    \E o \in OutputNames, req \in AllocRequests : \E users \in CustomResults(o) :
        alloc(o, req, users)

\* alloc, the Request having the DefaultAllocator.
alloc_default ==
    \E o \in OutputNames, req \in AllocRequests :
        \E users \in DefaultAllocator_allocate(req.memory_type, req.byte_size,
                                               req.data_type) :
            alloc(o, req, users)

\* infer_async has returned Ok and the engine has called nothing yet.
AllocInit ==
    /\ NoBuffer
    /\ NoCallback
    /\ NoTrace
    /\ model_known = TRUE
    /\ overflow_checks = FALSE
    /\ state = "InFlight"
    /\ input = [n \in {"IN0"} |-> [ptr |-> "p1", len |-> 3, data_type |-> "Uint8"]]
    /\ custom_allocator = FALSE
    /\ native_inputs = {"IN0"}
    /\ request_deleted = 0
    /\ ret = Return("infer_async", NoName, None, None, "Ok", CallsUpTo(Len(InferCalls)))
    /\ alloc_called = FALSE
    /\ returned_buffers = 0
    /\ output_buffers = EmptyMap
    /\ release_items = EmptyMap
    /\ last_alloc = None
    /\ allocated_buffer = [o \in OutputNames |-> None]
    /\ eng_query = "none"
    /\ eng_alloc = [o \in OutputNames |-> "none"]
    /\ releasing = {}
    /\ released = {}
    /\ freed = [o \in OutputNames |-> 0]
    /\ response = "none"
    /\ response_alive = FALSE
    /\ cb_pc = "idle"
    /\ cb_result = None
    /\ response_chan = Channel("open", None, TRUE)
    /\ input_chan = Channel("open", None, TRUE)
    /\ fut_alive = TRUE
    /\ fut_result = None
    /\ input_release = TRUE
    /\ handles = << >>
    /\ is_inferenced = FALSE
    /\ cancel_query = "none"
    /\ cancel_calls = 0
    /\ resp = "none"
    /\ ret_bufs = None

AllocNext ==
    /\ last_alloc = None
    /\ \/ alloc_custom
       \/ alloc_default

SpecAlloc == AllocInit /\ [][AllocNext]_vars

(***************************************************************************)
(* The caller's side of an inference in flight, over every state in which  *)
(* the receiver of the response channel can find it: still open, holding   *)
(* the Result that responce_wrapper sent, or closed because the sender was *)
(* dropped without a send.                                                 *)
(***************************************************************************)
\* What responce_wrapper can have sent when the engine allocated no output.
SentResults == { Ok(EmptyMap), Err("Native", EmptyMap), Err("Engine", EmptyMap) }

\* The response channel as its receiver can find it.
ReceiverViews ==
    { Channel("open", None, TRUE), Channel("closed", None, TRUE) } \cup
    { Channel("full", Some(r), TRUE) : r \in SentResults }

RecvInit ==
    /\ NoBuffer
    /\ NoCallback
    /\ NoTrace
    /\ model_known = TRUE
    /\ overflow_checks = FALSE
    /\ state = "InFlight"
    /\ input = [n \in {"IN0"} |-> [ptr |-> "p1", len |-> 3, data_type |-> "Uint8"]]
    /\ custom_allocator = FALSE
    /\ native_inputs = {"IN0"}
    /\ request_deleted = 0
    /\ ret = Return("infer_async", NoName, None, None, "Ok", CallsUpTo(Len(InferCalls)))
    /\ alloc_called = FALSE
    /\ returned_buffers = 0
    /\ output_buffers = EmptyMap
    /\ release_items = EmptyMap
    /\ last_alloc = None
    /\ allocated_buffer = [o \in OutputNames |-> None]
    /\ eng_query = "none"
    /\ eng_alloc = [o \in OutputNames |-> "none"]
    /\ releasing = {}
    /\ released = {}
    /\ freed = [o \in OutputNames |-> 0]
    /\ response_chan \in ReceiverViews
    /\ response = IF response_chan.st # "full" THEN "none"
                  ELSE IF Unwrap(response_chan.val).code = "Engine" THEN "error"
                  ELSE "ok"
    /\ response_alive = HoldsResponse(response_chan)
    /\ cb_pc = IF response_chan.st = "full" THEN "done" ELSE "idle"
    /\ cb_result = None
    /\ input_chan = Channel("open", None, TRUE)
    /\ fut_alive = TRUE
    /\ fut_result = None
    /\ input_release = TRUE
    /\ handles = << >>
    /\ is_inferenced = FALSE
    /\ cancel_query = "none"
    /\ cancel_calls = 0
    /\ resp = "none"
    /\ ret_bufs = None

RecvNext ==
    \/ Poll
    \/ blocking_recv
    \/ \E answer \in CancelAnswers : DropFuture(answer)
    \/ GetInputRelease
    \/ \E i \in DOMAIN handles : PollInputRelease(i)
    \/ release_callback
    \/ DropResponse

SpecRecv == RecvInit /\ [][RecvNext]_vars

(***************************************************************************)
(* memory.rs: one Buffer.  It is made by Buffer::alloc or Buffer::from,    *)
(* and then read through AsRef<[T]>, written by copy_from_slice, or        *)
(* dropped.  A usize is eight limbs wide.  A value of a Sample type is the *)
(* sequence of its bytes, a slice a sequence of such values.               *)
(***************************************************************************)
\* Longest slice passed to Buffer::from and copy_from_slice.
MaxSlice == 2

\* n as usize.
Usize(n) == Truncate(ToLimbs(n), 8)

\* usize::MAX
UsizeMax == [i \in 1..8 |-> 255]

\* A usize below 2^24 as an integer.
ToInt(a) == a[1] + 256 * a[2] + 65536 * a[3]

RECURSIVE AddCarry(_, _, _, _)
AddCarry(a, b, j, carry) ==
    IF j > Len(a) THEN << carry >>
    ELSE LET t == a[j] + b[j] + carry
         IN  << t % 256 >> \o AddCarry(a, b, j + 1, t \div 256)

\* The exact sum of two usize values, nine limbs wide.
BigAdd(a, b) == AddCarry(a, b, 1, 0)

\* 2^64 - a for a usize a > 0: how far a pointer moved by a lands before
\* where it started.
Back(a) == Truncate(BigAdd([i \in 1..8 |-> 255 - a[i]], Usize(1)), 8)

\* The Sample types (impl_sample!): T, T::DATA_TYPE and size_of::<T>().
SampleTypes ==
    { [type |-> "u8",   data_type |-> "Uint8",  size_of |-> 1],
      [type |-> "Byte", data_type |-> "Bytes",  size_of |-> 1],
      [type |-> "u16",  data_type |-> "Uint16", size_of |-> 2],
      [type |-> "f32",  data_type |-> "Fp32",   size_of |-> 4],
      [type |-> "i64",  data_type |-> "Int64",  size_of |-> 8] }

\* Two values of a Sample type T, as their bytes in memory.
Samples(T) == { Truncate(ToLimbs(v), T.size_of) : v \in { 1, 2 } }

\* The slices of T a caller may pass.
Slices(T) == SeqsUpTo(Samples(T), MaxSlice)

\* size_of_val(slice)
SizeOfVal(T, slice) == Len(slice) * T.size_of

\* The bytes of a slice, as copy_nonoverlapping reads them.
RECURSIVE BytesOf(_)
BytesOf(slice) ==
    IF slice = << >> THEN << >> ELSE Head(slice) \o BytesOf(Tail(slice))

\* Element counts passed to Buffer::alloc: small ones and 2^62.
Counts ==
    { Usize(n) : n \in 0..3 } \cup { [i \in 1..8 |-> IF i = 8 THEN 64 ELSE 0] }

\* Offsets passed to copy_from_slice: small ones and usize::MAX.
Offsets == { Usize(n) : n \in 0..4 } \cup { UsizeMax }

\* No allocation of 2^48 bytes or more succeeds: the address space is smaller.
ExceedsAddressSpace(size) == HighBits(size, 7)

\* Buffer {ptr, len, data_type, memory_type, owned}
Buffer(ptr, len, data_type, memory_type, owned) ==
    [ptr |-> ptr, len |-> len, data_type |-> data_type,
     memory_type |-> memory_type, owned |-> owned]

\* Buffer::alloc taking host memory that is not cleared (malloc for calloc).
Buffer_alloc_Uninitialised(T, count, memory_type, null, fill) ==
    /\ mem_ret.op = "none"
    /\ LET data_type_size == DataTypeSize(T.data_type)
           exact == BigMul(count, Usize(data_type_size))
           wraps == HighBits(exact, 9)
           size  == Truncate(exact, 8)
           call  == [op |-> "alloc", count |-> count, memory_type |-> memory_type,
                     data_type |-> T.data_type, size_of |-> data_type_size,
                     null |-> null]
       IN  /\ (wraps \/ ExceedsAddressSpace(size)) => null
           /\ null => fill = 0
           /\ IF wraps /\ overflow_checks
              THEN /\ mem_ret' = call @@ [kind |-> "Panic", code |-> "overflow"]
                   /\ UNCHANGED << mem_buffer, mem_heap >>
              ELSE IF memory_type # "Cpu" /\ ~gpu_feature
              THEN /\ mem_ret' = call @@ [kind |-> "Err", code |-> "InvalidArg"]
                   /\ UNCHANGED << mem_buffer, mem_heap >>
              ELSE IF null /\ memory_type # "Cpu"
              THEN /\ mem_ret' = call @@ [kind |-> "Err", code |-> "Cuda"]
                   /\ UNCHANGED << mem_buffer, mem_heap >>
              ELSE IF null
              THEN /\ mem_ret' = call @@ [kind |-> "Err", code |-> "Internal",
                                           message |-> "OutOfMemory"]
                   /\ UNCHANGED << mem_buffer, mem_heap >>
              ELSE /\ mem_ret' = call @@ [kind |-> "Ok", code |-> "Ok"]
                   /\ mem_buffer' = Some(Buffer("p", ToInt(size), T.data_type,
                                                memory_type, TRUE))
                   /\ mem_heap' = [i \in 1..ToInt(size) |-> fill]
    /\ UNCHANGED << gpu_feature, mem_slice >>
    /\ UNCHANGED << threadVars, traceVars >>
    /\ UNCHANGED << model_known, overflow_checks, state, input, custom_allocator,
                    native_inputs, request_deleted, ret, inferVars >>

\* Buffer::alloc::<T>(count, memory_type), that is alloc_with_data_type(count,
\* memory_type, T::DATA_TYPE).  null: the underlying call fails (calloc
\* returns a null pointer, as it must when count * size overflows and as it
\* may for zero bytes; the cuda call reports an error).  fill: what the
\* memory holds, zero after calloc and anything after a cuda allocation.
Buffer_alloc(T, count, memory_type, null, fill) ==
    /\ mem_ret.op = "none"
    /\ LET data_type_size == DataTypeSize(T.data_type)
           exact == BigMul(count, Usize(data_type_size))
           wraps == HighBits(exact, 9)
           size  == Truncate(exact, 8)
           call  == [op |-> "alloc", count |-> count, memory_type |-> memory_type,
                     data_type |-> T.data_type, size_of |-> data_type_size,
                     null |-> null]
       IN  /\ (wraps \/ ExceedsAddressSpace(size)) => null
           /\ memory_type = "Cpu" => fill = 0
           /\ null => fill = 0
           /\ IF wraps /\ overflow_checks
              THEN /\ mem_ret' = call @@ [kind |-> "Panic", code |-> "overflow"]
                   /\ UNCHANGED << mem_buffer, mem_heap >>
              ELSE IF memory_type # "Cpu" /\ ~gpu_feature
              THEN /\ mem_ret' = call @@ [kind |-> "Err", code |-> "InvalidArg"]
                   /\ UNCHANGED << mem_buffer, mem_heap >>
              ELSE IF null /\ memory_type # "Cpu"
              THEN /\ mem_ret' = call @@ [kind |-> "Err", code |-> "Cuda"]
                   /\ UNCHANGED << mem_buffer, mem_heap >>
              ELSE IF null
              THEN /\ mem_ret' = call @@ [kind |-> "Err", code |-> "Internal",
                                           message |-> "OutOfMemory"]
                   /\ UNCHANGED << mem_buffer, mem_heap >>
              ELSE /\ mem_ret' = call @@ [kind |-> "Ok", code |-> "Ok"]
                   /\ mem_buffer' = Some(Buffer("p", ToInt(size), T.data_type,
                                                memory_type, TRUE))
                   /\ mem_heap' = [i \in 1..ToInt(size) |-> fill]
    /\ UNCHANGED << gpu_feature, mem_slice >>
    /\ UNCHANGED << threadVars, traceVars >>
    /\ UNCHANGED << model_known, overflow_checks, state, input, custom_allocator,
                    native_inputs, request_deleted, ret, inferVars >>

\* Buffer::from(slice): calloc, copy_nonoverlapping, and a Buffer of
\* size_of_val(slice) bytes.  null: calloc returns a null pointer; the copy of
\* one byte or more to it is undefined behaviour, taken here as a crash.
Buffer_from(T, slice, null) ==
    /\ mem_ret.op = "none"
    /\ mem_slice' = Some([type |-> T.type, data |-> slice])
    /\ IF null /\ Len(slice) > 0
       THEN /\ mem_ret' = [op |-> "from", kind |-> "Crash", code |-> "null write"]
            /\ UNCHANGED << mem_buffer, mem_heap >>
       ELSE /\ mem_ret' = [op |-> "from", kind |-> "Ok", code |-> "Ok"]
            /\ mem_buffer' = Some(Buffer(IF null THEN "null" ELSE "p",
                                         SizeOfVal(T, slice), T.data_type, "Cpu",
                                         TRUE))
            /\ mem_heap' = BytesOf(slice)
    /\ UNCHANGED gpu_feature
    /\ UNCHANGED << threadVars, traceVars >>
    /\ UNCHANGED << model_known, overflow_checks, state, input, custom_allocator,
                    native_inputs, request_deleted, ret, inferVars >>

\* A Buffer has just been made and nothing was done with it.
Fresh == mem_buffer # None /\ mem_ret.op \in { "alloc", "from" }

\* slice::from_raw_parts(ptr as *const T, len): len values of T starting at
\* ptr.  data: those that lie in the allocation; outside: how many lie, in
\* part or whole, past its end, where a read is undefined behaviour.
FromRawParts(T, len) ==
    LET inside == IF len * T.size_of <= Len(mem_heap) THEN len
                  ELSE Len(mem_heap) \div T.size_of
    IN  [len |-> len,
         data |-> [i \in 1..inside |->
                      SubSeq(mem_heap, (i - 1) * T.size_of + 1, i * T.size_of)],
         outside |-> len - inside]

\* <Buffer as AsRef<[T]>>::as_ref
as_ref(T) ==
    /\ Fresh
    /\ LET this == Unwrap(mem_buffer)
           call == [op |-> "as_ref", type |-> T.type]
       IN  mem_ret' =
               IF T.data_type # this.data_type
               THEN call @@ [kind |-> "Panic", code |-> "data_type"]
               ELSE IF this.memory_type = "Gpu"
               THEN call @@ [kind |-> "Ok", code |-> "Ok"] @@ FromRawParts(T, 0)
               ELSE call @@ [kind |-> "Ok", code |-> "Ok"] @@ FromRawParts(T, this.len)
    /\ UNCHANGED << gpu_feature, mem_buffer, mem_heap, mem_slice >>
    /\ UNCHANGED << threadVars, traceVars >>
    /\ UNCHANGED << model_known, overflow_checks, state, input, custom_allocator,
                    native_inputs, request_deleted, ret, inferVars >>

\* The allocation after copy_nonoverlapping(src, ptr.byte_add(offset), ..):
\* the bytes of src that land in it.  back: 0, or how far before ptr the
\* destination starts when the offset wrapped around.
Written(heap, src, offset, back) ==
    [i \in 1..Len(heap) |->
        IF back = 0 /\ offset < i /\ i <= offset + Len(src) THEN src[i - offset]
        ELSE IF back > 0 /\ i + back <= Len(src) THEN src[i + back]
        ELSE heap[i]]

\* Buffer::copy_from_slice(offset, source).  fault: the copy does not come
\* back (a write outside the allocation crashes, the cuda copy reports an
\* error).
copy_from_slice(offset, T, slice, fault) ==
    /\ Fresh
    /\ mem_slice' = Some([type |-> T.type, data |-> slice])
    /\ LET this      == Unwrap(mem_buffer)
           byte_size == Usize(SizeOfVal(T, slice))
           exact     == BigAdd(byte_size, offset)
           wraps     == HighBits(exact, 9)
           required  == Truncate(exact, 8)
           call      == [op |-> "copy_from_slice", offset |-> offset,
                         before |-> mem_heap, len |-> this.len,
                         memory_type |-> this.memory_type, wraps |-> wraps]
       IN  /\ fault => \/ this.memory_type = "Gpu"
                       \/ wraps /\ ~overflow_checks
           /\ IF this.memory_type # "Cpu" /\ ~gpu_feature
              THEN /\ mem_ret' = call @@ [kind |-> "Err", code |-> "InvalidArg"]
                   /\ UNCHANGED mem_heap
              ELSE IF wraps /\ overflow_checks
              THEN /\ mem_ret' = call @@ [kind |-> "Panic", code |-> "overflow"]
                   /\ UNCHANGED mem_heap
              ELSE IF BigGreater(required, Usize(this.len))
              THEN /\ mem_ret' = call @@ [kind |-> "Err", code |-> "Internal"]
                   /\ UNCHANGED mem_heap
              ELSE IF fault
              THEN /\ mem_ret' = call @@
                        IF this.memory_type = "Gpu"
                        THEN [kind |-> "Err", code |-> "Cuda"]
                        ELSE [kind |-> "Crash", code |-> "wild write"]
                   /\ UNCHANGED mem_heap
              ELSE /\ mem_ret' = call @@ [kind |-> "Ok", code |-> "Ok"]
                   /\ mem_heap' = Written(mem_heap, BytesOf(slice),
                                          IF wraps THEN 0 ELSE ToInt(offset),
                                          IF wraps THEN ToInt(Back(offset)) ELSE 0)
    /\ UNCHANGED << gpu_feature, mem_buffer >>
    /\ UNCHANGED << threadVars, traceVars >>
    /\ UNCHANGED << model_known, overflow_checks, state, input, custom_allocator,
                    native_inputs, request_deleted, ret, inferVars >>

\* Nothing of memory.rs was called; both builds, both profiles.
MemInit ==
    /\ gpu_feature \in BOOLEAN
    /\ mem_buffer = None
    /\ mem_heap = << >>
    /\ mem_slice = None
    /\ mem_ret = [op |-> "none"]
    /\ NoCallback
    /\ NoTrace
    /\ model_known = TRUE
    /\ overflow_checks \in BOOLEAN
    /\ state = "Building"
    /\ input = EmptyMap
    /\ custom_allocator = FALSE
    /\ native_inputs = {}
    /\ request_deleted = 0
    /\ ret = Return("new", NoName, None, None, "Ok", {})
    /\ InferInit

MemNext ==
    \/ \E T \in SampleTypes, count \in Counts, memory_type \in MemoryTypes,
          null \in BOOLEAN, fill \in { 0, 1 } :
           Buffer_alloc(T, count, memory_type, null, fill)
    \/ \E T \in SampleTypes, null \in BOOLEAN : \E slice \in Slices(T) :
           Buffer_from(T, slice, null)
    \/ \E T \in SampleTypes : as_ref(T)
    \/ \E offset \in Offsets, T \in SampleTypes, fault \in BOOLEAN :
           \E slice \in Slices(T) : copy_from_slice(offset, T, slice, fault)

SpecMem == MemInit /\ [][MemNext]_vars

(***************************************************************************)
(* allocator.rs: the alloc and query callbacks, called by the engine from  *)
(* several native threads for one request.  Each spawns a thread that      *)
(* blocks on custom_allocator.write().await and then on the user's method, *)
(* and joins it.  The RwLock is tokio's, which queues its writers in FIFO  *)
(* order.                                                                  *)
(***************************************************************************)
\* error.rs Error::new: an owned Error around a new native error object;
\* deletes counts the TRITONSERVER_ErrorDelete calls on that object.
Error_new(code) == [code |-> code, owned |-> TRUE, deletes |-> 0]

\* error.rs Drop for Error
Drop_Error(error) ==
    IF error.owned THEN [error EXCEPT !.deletes = @ + 1] ELSE error

\* A callback at its return to the engine; error: the native error object
\* behind the pointer it returns, None for a null pointer.
Returned(kind, error) == [pc |-> "returned", kind |-> kind, error |-> error]

\* alloc and query from their entry to custom_allocator.write(): a null userp
\* and, in alloc, a tensor without datatype hint return `Error::new(..).ptr`,
\* whose temporary Error is dropped by the return; otherwise alloc sets
\* alloc_called, and the spawned thread queues for the write lock.
CallbackEnter(t, kind, userp, hint) ==
    /\ cb_thread[t].pc = "idle"
    /\ IF userp = "null" \/ (kind = "alloc" /\ ~hint)
       THEN /\ cb_thread' = [cb_thread EXCEPT
                                ![t] = Returned(kind,
                                                Some(Drop_Error(Error_new("Internal"))))]
            /\ UNCHANGED << allocator_lock, alloc_called >>
       ELSE /\ cb_thread' = [cb_thread EXCEPT
                                ![t] = [pc |-> "blocked", kind |-> kind, error |-> None]]
            /\ allocator_lock' = [allocator_lock EXCEPT !.waiters = Append(@, t)]
            /\ alloc_called' = (alloc_called \/ kind = "alloc")
    /\ UNCHANGED << memVars, traceVars, model_known, overflow_checks, state, input,
                    custom_allocator, native_inputs, request_deleted, ret >>
    /\ UNCHANGED << returned_buffers, output_buffers, release_items, last_alloc,
                    allocated_buffer, engineVars, callbackVars, callerVars >>

\* custom_allocator.read() in place of write(): a shared guard, granted while
\* another callback holds one.
LockAcquire_Read(t) ==
    /\ cb_thread[t].pc = "blocked"
    /\ allocator_lock.waiters # << >>
    /\ Head(allocator_lock.waiters) = t
    /\ allocator_lock' = [holder |-> Some(t), waiters |-> Tail(allocator_lock.waiters)]
    /\ cb_thread' = [cb_thread EXCEPT ![t].pc = "inside"]
    /\ UNCHANGED << memVars, traceVars, model_known, overflow_checks, state, input,
                    custom_allocator, native_inputs, request_deleted, ret >>
    /\ UNCHANGED inferVars

\* custom_allocator.write().await completes: the lock is free and the thread
\* is the first in its queue; the thread is now in allocate or in
\* pre_allocation_query, holding the guard.
LockAcquire(t) ==
    /\ cb_thread[t].pc = "blocked"
    /\ allocator_lock.holder = None
    /\ allocator_lock.waiters # << >>
    /\ Head(allocator_lock.waiters) = t
    /\ allocator_lock' = [holder |-> Some(t), waiters |-> Tail(allocator_lock.waiters)]
    /\ cb_thread' = [cb_thread EXCEPT ![t].pc = "inside"]
    /\ UNCHANGED << memVars, traceVars, model_known, overflow_checks, state, input,
                    custom_allocator, native_inputs, request_deleted, ret >>
    /\ UNCHANGED inferVars

\* The user's method returns, the guard is dropped and the callback returns:
\* query and a successful alloc return null; when allocate returned Err(err),
\* alloc returns err.ptr and drops err.
UserReturn(t, failed) ==
    /\ cb_thread[t].pc = "inside"
    /\ failed => cb_thread[t].kind = "alloc"
    /\ allocator_lock' = [allocator_lock EXCEPT !.holder = None]
    /\ cb_thread' = [cb_thread EXCEPT
                        ![t] = Returned(cb_thread[t].kind,
                                        IF failed
                                        THEN Some(Drop_Error(Error_new("Unavailable")))
                                        ELSE None)]
    /\ UNCHANGED << memVars, traceVars, model_known, overflow_checks, state, input,
                    custom_allocator, native_inputs, request_deleted, ret >>
    /\ UNCHANGED inferVars

\* The engine has taken what the callback returned; its thread may call again.
CallbackReturn(t) ==
    /\ cb_thread[t].pc = "returned"
    /\ cb_thread' = [cb_thread EXCEPT
                        ![t] = [pc |-> "idle", kind |-> "none", error |-> None]]
    /\ UNCHANGED << memVars, traceVars, model_known, overflow_checks, state, input,
                    custom_allocator, native_inputs, request_deleted, ret >>
    /\ UNCHANGED << allocator_lock, inferVars >>

ThreadsNext ==
    \/ \E t \in Threads, kind \in { "alloc", "query" }, userp \in { "null", "allocator" },
          hint \in BOOLEAN : CallbackEnter(t, kind, userp, hint)
    \/ \E t \in Threads : LockAcquire(t)
    \/ \E t \in Threads, failed \in BOOLEAN : UserReturn(t, failed)
    \/ \E t \in Threads : CallbackReturn(t)

\* The runtime polls the spawned threads' futures, and the user's allocate and
\* pre_allocation_query return.
SpecThreads ==
    /\ AllocInit
    /\ [][ThreadsNext]_vars
    /\ WF_vars(\E t \in Threads : LockAcquire(t))
    /\ WF_vars(\E t \in Threads, failed \in BOOLEAN : UserReturn(t, failed))

(***************************************************************************)
(* trace.rs: one Trace made by new_with_handle, its children, and the      *)
(* callbacks the engine calls with the raw pointer to the handler block.   *)
(***************************************************************************)
\* Arc::clone of the handler block.
ArcClone(arc) == [arc EXCEPT !.strong = @ + 1]

\* Drop of one Arc of the handler block: the last one frees it.
ArcDrop(arc) ==
    [strong |-> arc.strong - 1,
     freed |-> IF arc.strong - 1 = 0 THEN arc.freed + 1 ELSE arc.freed]

\* A native trace and its Rust handle: held by the caller, forgotten by
\* infer_async, or dropped; deletes counts TRITONSERVER_InferenceTraceDelete.
NativeTrace(handle, deletes) == [handle |-> handle, deletes |-> deletes]

TraceReturn(op, trace, code) == [op |-> op, trace |-> trace, code |-> code]

\* Drop for Trace: Drop for TraceInner deletes the native trace, and the
\* handlers_copy Arc is dropped.
DropTrace(t) ==
    /\ traces' = [traces EXCEPT ![t] = NativeTrace("dropped", @.deletes + 1)]
    /\ handlers' = ArcDrop(handlers)

\* Trace::new_with_handle: Arc::new, Arc::into_raw of a clone, the native
\* call; when that fails the `?` drops the Arc and leaves the raw one behind.
new_with_handle(ok) ==
    /\ trace_ret.op = "none"
    /\ IF ok
       THEN /\ handlers' = ArcClone([strong |-> 1, freed |-> 0])
            /\ traces' = << NativeTrace("held", 0) >>
            /\ trace_ret' = TraceReturn("new_with_handle", 1, "Ok")
       ELSE /\ handlers' = ArcDrop(ArcClone([strong |-> 1, freed |-> 0]))
            /\ traces' = << >>
            /\ trace_ret' = TraceReturn("new_with_handle", 0, "Native")
    /\ UNCHANGED << memVars, threadVars, model_known, overflow_checks, state, input,
                    custom_allocator, native_inputs, request_deleted, ret >>
    /\ UNCHANGED inferVars

\* Trace::spawn_child on a Trace the caller holds.
spawn_child(t, ok) ==
    /\ traces[t].handle = "held"
    /\ Len(traces) <= MaxChildren
    /\ IF ok
       THEN /\ handlers' = ArcClone(handlers)
            /\ traces' = Append(traces, NativeTrace("held", 0))
            /\ trace_ret' = TraceReturn("spawn_child", t, "Ok")
       ELSE /\ trace_ret' = TraceReturn("spawn_child", t, "Native")
            /\ UNCHANGED << handlers, traces >>
    /\ UNCHANGED << memVars, threadVars, model_known, overflow_checks, state, input,
                    custom_allocator, native_inputs, request_deleted, ret >>
    /\ UNCHANGED inferVars

\* The caller drops a Trace it holds.
drop_trace(t) ==
    /\ traces[t].handle = "held"
    /\ DropTrace(t)
    /\ trace_ret' = TraceReturn("drop", t, "Ok")
    /\ UNCHANGED << memVars, threadVars, model_known, overflow_checks, state, input,
                    custom_allocator, native_inputs, request_deleted, ret >>
    /\ UNCHANGED inferVars

\* infer_async of a Request the Trace was added to: on Ok the Trace is
\* forgotten (mem::forget), on Err it is dropped with the locals.
infer_async_trace(t, ok) ==
    /\ traces[t].handle = "held"
    /\ IF ok
       THEN /\ traces' = [traces EXCEPT ![t].handle = "forgotten"]
            /\ trace_ret' = TraceReturn("infer_async", t, "Ok")
            /\ UNCHANGED handlers
       ELSE /\ DropTrace(t)
            /\ trace_ret' = TraceReturn("infer_async", t, "Native")
    /\ UNCHANGED << memVars, threadVars, model_known, overflow_checks, state, input,
                    custom_allocator, native_inputs, request_deleted, ret >>
    /\ UNCHANGED inferVars

\* An activity callback that lets its Arc::from_raw handle drop.
activity_wraper_DropsHandle(t, op) ==
    /\ traces[t].deletes = 0
    /\ handlers' = ArcDrop(ArcDrop(ArcClone(handlers)))
    /\ trace_ret' = TraceReturn(op, t, "Ok")
    /\ UNCHANGED << memVars, threadVars, model_known, overflow_checks, state, input,
                    custom_allocator, native_inputs, request_deleted, ret >>
    /\ UNCHANGED << traces, inferVars >>

\* activity_wraper and tensor_activity_wrapper, on a native trace that exists:
\* Arc::from_raw, a clone for foo_trace, the user's handler, forget(handle)
\* and forget(foo_trace.ptr); the clone in foo_trace is dropped at the end.
activity_wraper(t, op) ==
    /\ traces[t].deletes = 0
    /\ handlers' = ArcDrop(ArcClone(handlers))
    /\ trace_ret' = TraceReturn(op, t, "Ok")
    /\ UNCHANGED << memVars, threadVars, model_known, overflow_checks, state, input,
                    custom_allocator, native_inputs, request_deleted, ret >>
    /\ UNCHANGED << traces, inferVars >>

\* The delete callback, which the engine calls once for a trace it was given:
\* TRITONSERVER_InferenceTraceDelete and the drop of Arc::from_raw(userp).
delete(t) ==
    /\ traces[t].handle = "forgotten"
    /\ traces[t].deletes = 0
    /\ traces' = [traces EXCEPT ![t].deletes = @ + 1]
    /\ handlers' = ArcDrop(handlers)
    /\ trace_ret' = TraceReturn("delete", t, "Ok")
    /\ UNCHANGED << memVars, threadVars, model_known, overflow_checks, state, input,
                    custom_allocator, native_inputs, request_deleted, ret >>
    /\ UNCHANGED inferVars

TraceNext ==
    \/ \E ok \in BOOLEAN : new_with_handle(ok)
    \/ \E t \in DOMAIN traces, ok \in BOOLEAN : spawn_child(t, ok)
    \/ \E t \in DOMAIN traces : drop_trace(t)
    \/ \E t \in DOMAIN traces, ok \in BOOLEAN : infer_async_trace(t, ok)
    \/ \E t \in DOMAIN traces, op \in { "activity", "tensor_activity" } :
           activity_wraper(t, op)
    \/ \E t \in DOMAIN traces : delete(t)

SpecTrace == BuildInit /\ [][TraceNext]_vars

(***************************************************************************)
(* Properties of one inference.                                            *)
(***************************************************************************)
\* The future resolved to Err(InferenceError) whose output_buffers has keys K.
ResolvedErrWith(K) ==
    /\ fut_result # None
    /\ Unwrap(fut_result).kind = "Err"
    /\ DOMAIN Unwrap(fut_result).output_buffers = K

\* The caller gave the future up before it resolved, or the process aborted.
GivenUp == (~fut_alive /\ fut_result = None) \/ state = "Aborted"

\* The outputs for which alloc returned a buffer to the engine.
Allocated == { o \in OutputNames : eng_alloc[o] = "ok" }

\* C1: when the engine allocated A, never B, and reports an error on the
\* response, the inference future resolves to Err(InferenceError) whose
\* output_buffers has exactly the key A.
C1_PartialBuffersOnError ==
    (response = "error" /\ eng_alloc["A"] = "ok" /\ eng_alloc["B"] = "none")
    ~> (ResolvedErrWith({"A"}) \/ GivenUp)

\* C2: when the user Allocator fails for an output, alloc stashes no release
\* record for it, and the inference future eventually resolves to
\* Err(InferenceError) holding every output buffer that was allocated.
C2_AllocErrorSurfaces ==
    /\ [](\A o \in OutputNames : eng_alloc[o] = "err" => o \notin DOMAIN release_items)
    /\ ((\E o \in OutputNames : eng_alloc[o] = "err")
        ~> (ResolvedErrWith(Allocated) \/ GivenUp))

\* C3: return_buffers on a constructed Response eventually completes, however
\* many outputs the engine allocated.
C3_ReturnBuffersCompletes ==
    (resp = "rb_spin") ~> (resp = "returned")

\* C4: the map return_buffers returned has as keys the tensors for which the
\* engine invoked release, and the bridge's returned-buffer map is empty.
C4_ReturnedKeysAreReleased ==
    resp = "returned"
    => (DOMAIN Unwrap(ret_bufs) = released /\ output_buffers = EmptyMap)

\* C4: return_buffers returned after the engine released A and B.
C4_Witness ==
    /\ resp = "returned"
    /\ released = { "A", "B" }
    /\ DOMAIN Unwrap(ret_bufs) = { "A", "B" }

\* The engine has delivered the response: responce_wrapper sent it.
Delivered == response_chan.st \in { "full", "taken" }

\* C5: the drop of a ResponseFuture issues exactly one
\* TRITONSERVER_InferenceRequestCancel call when the response has not been
\* delivered, and none when it has (stated for the engine answering the
\* is-cancelled query, where one is made, with "not cancelled").
C5_CancelOnlyBeforeCompletion ==
    [][ (fut_alive /\ ~fut_alive' /\ cancel_query' \notin { "true", "error" })
        => (cancel_calls' = cancel_calls + (IF Delivered THEN 0 ELSE 1)) ]_vars

\* The InputReleases of the second and later get_input_release calls.
LaterHandles == { i \in DOMAIN handles : i >= 2 }

\* C6 as claimed: the InputRelease of a second get_input_release call resolves
\* to an empty input-buffer map.
C6_SecondResolvesToEmptyMap ==
    \A i \in LaterHandles :
        handles[i].result # None => Unwrap(handles[i].result) = InputsOk(EmptyMap)

\* C6 as amended: the InputRelease of a second get_input_release call is never
\* pending, and resolves to Err with code Internal.
C6_SecondResolvesToInternal ==
    \A i \in LaterHandles :
        /\ RecvReady(HandleChannel(handles[i]))
        /\ handles[i].result # None
           => Unwrap(handles[i].result) = InputsErr("Internal")

\* C6: the InputRelease of a second get_input_release call has resolved.
C6_Witness ==
    \E i \in LaterHandles : handles[i].result # None

\* infer_async got as far as Box::into_raw: it issued SetReleaseCallback.
Boxed == ret.op = "infer_async" /\ "SetReleaseCallback" \in ret.calls

\* C11: once infer_async has boxed the (Request, input sender), the box is
\* reclaimed and the Request dropped exactly once: by the error path when
\* infer_async returns Err, by release_callback when the engine releases the
\* request, and never twice.
C11_BoxReclaimedOnce ==
    /\ request_deleted <= 1
    /\ (Boxed /\ ret.code # "Ok") => (state = "Dropped" /\ request_deleted = 1)
    /\ state = "Released" => request_deleted = 1

\* C12: an Err(InferenceError) that the future delivers after the engine
\* produced a response carries every output buffer the user Allocator
\* allocated during the inference.
C12_ErrorCarriesAllocated ==
    (fut_result # None /\ Unwrap(fut_result).kind = "Err" /\ response # "none")
    => DOMAIN Unwrap(fut_result).output_buffers = Allocated

\* The input buffers attached when infer_async is called.
AttachedInputs ==
    [n \in {"IN0"} |-> [ptr |-> "p1", len |-> 3, data_type |-> "Uint8"]]

\* The InputRelease that infer_async created, once get_input_release gave it out.
RealHandles == { i \in DOMAIN handles : handles[i].kind = "real" }

C16_UnrequestedInputsDropped ==
    (state = "Released" /\ handles = << >>)
    => (input = EmptyMap /\ input_chan.st # "full")

\* Exactly one of the two locations is on the device.
CrossesBoundary(requested, returned) == (requested = "Gpu") # (returned = "Gpu")

\* C13: for every requested location, every location and every length of the
\* buffer the user Allocator returned, alloc aborts if and only if the buffer
\* is shorter than byte_size or the two locations are on different sides of
\* the Host/Device boundary; otherwise the buffer is handed to the engine.
C13_AbortIffContractBroken ==
    (last_alloc # None /\ Unwrap(last_alloc).users # None)
    => LET call   == Unwrap(last_alloc)
           buffer == Unwrap(call.users)
           broken == \/ buffer.len < call.byte_size
                     \/ CrossesBoundary(call.memory_type, buffer.memory_type)
       IN  IF broken THEN call.outcome = "abort" /\ state = "Aborted"
           ELSE /\ call.outcome = "ok"
                /\ call.name \in DOMAIN release_items
                /\ release_items[call.name] = buffer

\* C14: whatever DefaultAllocator::allocate returns for a request is a buffer
\* at the requested location, of the hinted datatype, whose byte length is
\* the requested byte_size exactly, and alloc hands it to the engine.
C14_DefaultAllocatesExactly ==
    (/\ last_alloc # None
     /\ Unwrap(last_alloc).users \in
            DefaultAllocator_allocate(Unwrap(last_alloc).memory_type,
                                      Unwrap(last_alloc).byte_size,
                                      Unwrap(last_alloc).data_type))
    => LET call == Unwrap(last_alloc)
       IN  /\ call.users # None
           /\ Unwrap(call.users).memory_type = call.memory_type
           /\ Unwrap(call.users).data_type = call.data_type
           /\ Unwrap(call.users).len = call.byte_size
           /\ call.outcome = "ok"

C18_NoCancelOnceCancelled ==
    /\ [](cancel_calls <= 1)
    /\ [][ (fut_alive /\ ~fut_alive' /\ cancel_query' \in { "true", "error" })
           => cancel_calls' = cancel_calls ]_vars

\* C18: a future was dropped before the response was delivered, the query
\* answered "cancelled" or failed, and no cancel call was issued.
C18_Witness ==
    /\ ~fut_alive
    /\ fut_result = None
    /\ ~Delivered
    /\ cancel_query \in { "true", "error" }
    /\ cancel_calls = 0

\* C26: the RequestCanceller calls TRITONSERVER_InferenceRequestIsCancelled
\* and TRITONSERVER_InferenceRequestCancel only on a native request handle
\* that is alive: never after release_callback has taken back and dropped the
\* Request, whose Drop deletes the handle.
C26_CancellerTouchesLiveHandle ==
    [][(cancel_query' # cancel_query \/ cancel_calls' # cancel_calls)
           => (state = "InFlight" /\ request_deleted = 0)]_vars

\* return_buffers is inside its wait or its drain.
InReturnBuffers == resp \in { "rb_spin", "rb_drain" }

\* C27: return_buffers deletes the native response before it first reads the
\* counter of released buffers: while it waits on the counter, and after, the
\* native response handle is not alive.
C27_DeleteBeforeWait == InReturnBuffers => ~response_alive

\* C27: return_buffers waits for a buffer the engine has yet to release.
C27_Witness ==
    /\ resp = "rb_spin"
    /\ returned_buffers < buffers_count
    /\ release_items # EmptyMap

\* A harvester (Response::new on an engine error, return_buffers) is about to
\* drain the map of returned buffers.
Harvesting == resp = "rb_drain" \/ cb_pc = "drain"

\* C28: the counter of released buffers only grows, by exactly one per release
\* callback and after that release has inserted its buffer; so it never
\* exceeds the number of completed insertions, and a harvester that sees it at
\* buffers_count or more finds that many buffers in the map.
C28_CounterFollowsInsertions ==
    /\ [](returned_buffers <= Cardinality(released))
    /\ []((Harvesting /\ returned_buffers >= buffers_count)
              => Cardinality(DOMAIN output_buffers) >= buffers_count)
    /\ [][returned_buffers' # returned_buffers
              => /\ returned_buffers' = returned_buffers + 1
                 /\ \E o \in releasing \cap released : releasing' = releasing \ {o}]_vars

\* C28: return_buffers has seen the counter at two and finds A and B.
C28_Witness ==
    /\ resp = "rb_drain"
    /\ returned_buffers = 2
    /\ DOMAIN output_buffers = { "A", "B" }

\* The keys of the output_buffers of a Result that is there.
Keys(result) == IF result = None THEN {} ELSE DOMAIN Unwrap(result).output_buffers

\* The tensors whose buffers were harvested: by Response::new into an
\* InferenceError, wherever that is by now, or by return_buffers.
Harvested ==
    Keys(cb_result) \cup Keys(response_chan.val) \cup Keys(fut_result) \cup
    (IF ret_bufs = None THEN {} ELSE DOMAIN Unwrap(ret_bufs))

\* C29: only release inserts into the map of returned buffers or changes the
\* counter, alloc and query change neither; and every buffer that
\* return_buffers or InferenceError::output_buffers hands out was inserted by
\* a release callback.
C29_OnlyReleaseReturnsBuffers ==
    /\ [][(returned_buffers' # returned_buffers
           \/ ~(DOMAIN output_buffers' \subseteq DOMAIN output_buffers))
              => /\ releasing' # releasing
                 /\ last_alloc' = last_alloc
                 /\ eng_query' = eng_query]_vars
    /\ [](Harvested \subseteq released)

\* C29: after a query and the allocations, return_buffers handed out A and B.
C29_Witness ==
    /\ eng_query # "none"
    /\ alloc_called
    /\ ret_bufs # None
    /\ Harvested = { "A", "B" }

\* C30: the alloc callback runs only after infer_async has handed the Request
\* to the engine: while the Request is being built no alloc callback has run,
\* the alloc flag is false and the counter of released buffers is 0.
C30_NoAllocWhileBuilding ==
    /\ state = "Building" =>
           /\ ~alloc_called
           /\ returned_buffers = 0
           /\ last_alloc = None
           /\ release_items = EmptyMap
    /\ last_alloc # None => (ret.op = "infer_async" /\ ret.code = "Ok")

\* C30: infer_async has returned Ok and alloc has run.
C30_Witness ==
    /\ state = "InFlight"
    /\ alloc_called
    /\ last_alloc # None
    /\ ret.op = "infer_async"

\* The owning Buffers of the storage p that the inference holds: the one the
\* engine was given, the one in the map of returned buffers, those in an
\* InferenceError and in the map return_buffers returned.
Owners(p) ==
    LET owns(map) == IF p \in DOMAIN map /\ map[p].ptr = p /\ map[p].owned
                     THEN 1 ELSE 0
        in(result) == IF result = None THEN 0
                      ELSE owns(Unwrap(result).output_buffers)
    IN  owns(release_items) + owns(output_buffers) + in(cb_result)
        + in(response_chan.val) + in(fut_result)
        + (IF ret_bufs = None THEN 0 ELSE owns(Unwrap(ret_bufs)))

\* C23: from alloc on, the storage of every output buffer has exactly one
\* owning Buffer or was freed exactly once, by the drop of that owner; the
\* drop of a borrowed Buffer, as an Output of the Response holds, frees
\* nothing.
C23_FreedOnceByOwner ==
    \A p \in OutputNames :
        Owners(p) + freed[p] = IF eng_alloc[p] = "ok" THEN 1 ELSE 0

\* C23: the Response was dropped without return_buffers, the engine released
\* both buffers, and the drop of the allocator freed each once.
C23_Witness ==
    /\ resp = "dropped"
    /\ released = { "A", "B" }
    /\ freed = [o \in OutputNames |-> 1]

\* The caller dropped the ResponseFuture before responce_wrapper sent the
\* response: the channel is open and has no receiver.
DroppedEarly ==
    /\ ~fut_alive
    /\ fut_result = None
    /\ response_chan = Channel("open", None, FALSE)

\* Drop for Inner has run (TRITONSERVER_ResponseAllocatorDelete): no Arc of
\* it is left, neither outside the release callbacks nor with a ReleaseItems.
AllocatorDeleted ==
    /\ response # "none"
    /\ ~AllocatorHeld
    /\ release_items = EmptyMap
    /\ releasing = {}

\* C32: when the ResponseFuture is dropped before the response is delivered,
\* the send of responce_wrapper fails without a panic and drops the result;
\* no output buffer is freed twice; the native response allocator is deleted
\* only after the release callback of every allocated buffer has run; and
\* every buffer the user Allocator allocated comes to be freed once.
C32_DropBeforeDelivery ==
    /\ [][(DroppedEarly /\ cb_pc = "send" /\ cb_pc' # "send")
              => /\ state' = state
                 /\ cb_pc' = "done"
                 /\ cb_result' = None
                 /\ ~response_alive']_vars
    /\ [](DroppedEarly => \A o \in OutputNames : freed[o] <= 1)
    /\ []((DroppedEarly /\ AllocatorDeleted)
              => \A o \in Allocated : o \in released \ releasing)
    /\ (DroppedEarly
        ~> (\/ state = "Aborted"
            \/ /\ cb_pc = "done"
               /\ \A o \in OutputNames :
                      freed[o] = IF o \in Allocated THEN 1 ELSE 0))

\* The maps of output buffers on their way to the caller or with it: the
\* output_buffers of an InferenceError and the map return_buffers returned.
MapsOut ==
    { Unwrap(result).output_buffers :
          result \in { cb_result, response_chan.val, fut_result } \ { None } }
    \cup (IF ret_bufs = None THEN {} ELSE { Unwrap(ret_bufs) })

\* C34: the buffer handed back under an output name, by return_buffers or in
\* InferenceError::output_buffers, is the Buffer the user Allocator returned
\* to alloc for that name: same pointer, same memory type, owning, and of the
\* length it was allocated with.
C34_SameBufferBack ==
    \A map \in MapsOut : \A N \in DOMAIN map :
        /\ allocated_buffer[N] # None
        /\ map[N] = Unwrap(allocated_buffer[N])
        /\ map[N].owned

\* C34: return_buffers handed back, under A, a Buffer longer than the byte
\* size the engine asked for and reported at release.
C34_Witness ==
    /\ ret_bufs # None
    /\ "A" \in DOMAIN Unwrap(ret_bufs)
    /\ Unwrap(ret_bufs)["A"].len > Requested.byte_size
    /\ Unwrap(ret_bufs)["A"].owned

(***************************************************************************)
(* Properties of the Request builder.                                      *)
(***************************************************************************)
AddInputOps ==
    { "add_input", "add_input_with_dims", "add_input_with_policy",
      "add_input_with_policy_and_dims" }

DeclaredInputs == { s.name : s \in ModelInputs }

\* The last call was an add_input* call.
AddInputReturned == ret.op \in AddInputOps

\* C7: infer_async on a Request with no input, or with no Allocator, returns
\* NotFound having issued no native call, and the consumed Request's native
\* handle is deleted exactly once.
C7_InferPreconditions ==
    [][ (state = "Building" /\ ret'.op = "infer_async"
            /\ (input = EmptyMap \/ ~custom_allocator))
        => (/\ ret'.code = "NotFound"
            /\ ret'.calls = {}
            /\ state' = "Dropped"
            /\ request_deleted = 0
            /\ request_deleted' = 1) ]_vars

\* C7: infer_async has failed on a Request that had an input and no Allocator.
C7_Witness ==
    /\ ret.op = "infer_async"
    /\ ret.code = "NotFound"
    /\ input # EmptyMap
    /\ ~custom_allocator
    /\ request_deleted = 1

\* C8: an add_input* call whose name is already in the input map returns
\* AlreadyExists and leaves the input map, the first buffer included, unchanged.
C8_DuplicateRejected ==
    [][ (state = "Building" /\ ret'.op \in AddInputOps /\ ret'.name \in DOMAIN input)
        => (ret'.code = "AlreadyExists" /\ input' = input) ]_vars

\* C8: a second buffer was offered under a name that is attached.
C8_Witness ==
    /\ AddInputReturned
    /\ ret.code = "AlreadyExists"
    /\ ret.name \in DOMAIN input
    /\ input[ret.name] # Unwrap(ret.buffer)

\* The dimension list the last add_input* call validated against.
EffectiveDims ==
    IF ret.dims # None THEN Unwrap(ret.dims)
    ELSE (CHOOSE s \in ModelInputs : s.name = ret.name).dims

\* product of the strictly positive dimensions x element size > byte length,
\* in exact arithmetic.
ShapeExceeds(dims, datatype, buffer) ==
    BigGreater(BigMul(Product(PositiveDims(dims)), ToLimbs(DataTypeSize(datatype))),
               ToLimbs(buffer.len))

\* C9: a buffer offered for a declared input passes validation if and only if
\* its datatype is the declared one and its byte length is at least the product
\* of the positive dimensions times the element size; otherwise the call
\* returns InvalidArg.
C9_AcceptsIffFits ==
    (AddInputReturned /\ ret.name \in DeclaredInputs)
    => LET declared == (CHOOSE s \in ModelInputs : s.name = ret.name).datatype
           buffer == Unwrap(ret.buffer)
           fits == /\ buffer.data_type = declared
                   /\ ~ShapeExceeds(EffectiveDims, declared, buffer)
       IN  IF fits THEN ret.code \in { "Ok", "Native" }
           ELSE ret.code = "InvalidArg"

\* C10: an add_input* call with a name the model does not declare returns
\* InvalidArg or NotFound and attaches nothing.
C10_UnknownInputCode ==
    (AddInputReturned /\ ret.name \notin DeclaredInputs)
    => (ret.code \in { "InvalidArg", "NotFound" } /\ ret.name \notin DOMAIN input)

ValidationCodes == { "AlreadyExists", "InvalidArg", "Internal", "NotFound" }

C33_FailedAddInputChangesNothing ==
    [][ (state = "Building" /\ ret' # ret /\ ret'.op \in AddInputOps
            /\ ret'.code \notin { "Ok", "Panic" })
        => (input' = input /\ native_inputs' = native_inputs) ]_vars

\* C38: remove_input of a name that is not in the input map returns InvalidArg
\* and changes nothing; of a name that is, it returns the buffer attached under
\* that name and removes exactly that entry.  After a removal an add_input* of
\* the same name is not rejected as a duplicate, and infer_async on the map it
\* emptied returns NotFound.
C38_RemoveInput ==
    [][ /\ (state = "Building" /\ ret'.op = "remove_input")
           => IF ret'.name \notin DOMAIN input
              THEN /\ ret'.code = "InvalidArg"
                   /\ input' = input
                   /\ native_inputs' = native_inputs
              ELSE /\ ret'.code = "Ok"
                   /\ ret'.buffer = Some(input[ret'.name])
                   /\ input' = Remove(input, ret'.name)
        /\ (ret.op = "remove_input" /\ ret.code = "Ok" /\ ret'.op \in AddInputOps
               /\ ret'.name = ret.name)
           => ret'.code # "AlreadyExists"
        /\ (ret.op = "remove_input" /\ input = EmptyMap /\ ret'.op = "infer_async")
           => ret'.code = "NotFound" ]_vars

(***************************************************************************)
(* Properties of Buffer.                                                   *)
(***************************************************************************)
\* as_ref::<T> has returned a slice of the Buffer that Buffer::from made of a
\* slice of the same T.
ReadBack ==
    /\ mem_ret.op = "as_ref"
    /\ mem_ret.kind = "Ok"
    /\ mem_slice # None

\* C21: a Buffer made by Buffer::from of a slice of any Sample type, read back
\* through AsRef<[T]>, gives a slice of as many elements as the original, with
\* equal contents.
C21_FromAsRefRoundTrip ==
    ReadBack =>
        /\ mem_ret.len = Len(Unwrap(mem_slice).data)
        /\ mem_ret.outside = 0
        /\ mem_ret.data = Unwrap(mem_slice).data

\* copy_from_slice was called on a Buffer in host memory (MemoryType::Cpu).
CopiedToHost == mem_ret.op = "copy_from_slice" /\ mem_ret.memory_type = "Cpu"

\* C22: copy_from_slice(offset, source) on a host Buffer of L bytes returns an
\* error exactly if offset + byte_length(source) > L; when it succeeds the
\* bytes from offset on equal the source and the others are as before; when it
\* fails the Buffer is as before.
C22_CopyFromSliceBounds ==
    CopiedToHost =>
        LET src == BytesOf(Unwrap(mem_slice).data)
            end == BigAdd(Usize(Len(src)), mem_ret.offset)
        IN  /\ mem_ret.kind \in { "Ok", "Err" }
            /\ mem_ret.kind = "Err" <=> BigGreater(end, Usize(mem_ret.len))
            /\ mem_ret.kind = "Err" => mem_heap = mem_ret.before
            /\ mem_ret.kind = "Ok" =>
                   /\ Len(mem_heap) = Len(mem_ret.before)
                   /\ \A i \in 1..Len(mem_heap) :
                          LET at == ToInt(mem_ret.offset)
                          IN  mem_heap[i] = IF at < i /\ i <= at + Len(src)
                                            THEN src[i - at]
                                            ELSE mem_ret.before[i]

\* Buffer::alloc was called.
Allocating == mem_ret.op = "alloc"

\* C24: Buffer allocation at a location other than the host (Pinned, Gpu) in a
\* build without device support fails with an error of kind Unsupported and
\* allocates nothing; an allocation whose underlying call returns a null
\* pointer fails with an out-of-memory error and returns no Buffer.
C24_AllocFailures ==
    Allocating =>
        /\ (mem_ret.memory_type # "Cpu" /\ ~gpu_feature) =>
               /\ mem_ret.kind = "Err"
               /\ mem_ret.code = "Unsupported"
               /\ mem_buffer = None
        /\ (mem_ret.memory_type = "Cpu" /\ mem_ret.null /\ mem_ret.kind # "Panic") =>
               /\ mem_ret.kind = "Err"
               /\ mem_ret.message = "OutOfMemory"
               /\ mem_buffer = None

\* C25: the Buffer of a successful host allocation of n elements of e bytes
\* each is exactly n * e bytes long, and every byte of it is zero.
C25_HostAllocZeroed ==
    (Allocating /\ mem_ret.memory_type = "Cpu" /\ mem_ret.kind = "Ok") =>
        /\ mem_buffer # None
        /\ BigMul(mem_ret.count, Usize(mem_ret.size_of)) =
               Truncate(Usize(Unwrap(mem_buffer).len), 16)
        /\ Len(mem_heap) = Unwrap(mem_buffer).len
        /\ \A i \in 1..Len(mem_heap) : mem_heap[i] = 0

\* Three f32 were allocated on the host: twelve bytes.
C25_Witness ==
    /\ Allocating
    /\ mem_ret.memory_type = "Cpu"
    /\ mem_ret.kind = "Ok"
    /\ mem_ret.count = Usize(3)
    /\ mem_ret.size_of = 4
    /\ Len(mem_heap) = 12

(***************************************************************************)
(* Properties of the alloc and query callbacks.                            *)
(***************************************************************************)
\* C31: of the alloc and query callbacks the engine runs at once for one
\* request, at most one is inside the user Allocator's allocate or
\* pre_allocation_query at any time, and every callback that waits for the
\* Allocator gets in, the holders returning.
C31_AllocatorExclusive ==
    /\ [](Cardinality({ t \in Threads : cb_thread[t].pc = "inside" }) <= 1)
    /\ \A t \in Threads :
           (cb_thread[t].pc = "blocked") ~> (cb_thread[t].pc = "inside")

\* C31: one callback is inside allocate while a query callback and another
\* alloc callback wait for the lock.
C31_Witness ==
    /\ \E t \in Threads :
           cb_thread[t] = [pc |-> "inside", kind |-> "alloc", error |-> None]
    /\ \E t, u \in Threads :
           /\ t # u
           /\ cb_thread[t] = [pc |-> "blocked", kind |-> "query", error |-> None]
           /\ cb_thread[u] = [pc |-> "blocked", kind |-> "alloc", error |-> None]
    /\ Len(allocator_lock.waiters) = 2

\* C35: the error object whose pointer the alloc or query callback returns to
\* the engine has not been deleted by the Rust side when the callback returns.
C35_ReturnedErrorIsLive ==
    \A t \in Threads :
        (cb_thread[t].pc = "returned" /\ cb_thread[t].error # None)
        => Unwrap(cb_thread[t].error).deletes = 0

(***************************************************************************)
(* Properties of Trace.                                                    *)
(***************************************************************************)
\* C36: spawn_child adds one to the strong count of the handler block; the
\* count never goes below zero; the block is not freed while a native trace
\* exists; it is freed at most once, and it is freed once every native trace
\* has had its delete callback or was deleted with its Rust handle.
C36_HandlerBlockLifetime ==
    /\ [][Len(traces') > Len(traces) /\ Len(traces) > 0
              => handlers'.strong = handlers.strong + 1]_vars
    /\ [](handlers.strong >= 0)
    /\ [](handlers.freed > 0 => \A t \in DOMAIN traces : traces[t].deletes > 0)
    /\ [](handlers.freed <= 1)
    /\ []((traces # << >> /\ \A t \in DOMAIN traces : traces[t].deletes > 0)
              => handlers.freed = 1)

\* C37: an activity or tensor-activity callback leaves the strong count of
\* the handler block as it found it, frees nothing and deletes no native
\* trace; of the trace callbacks only delete takes a reference away, exactly
\* one, deleting the native trace.
C37_ActivityKeepsCount ==
    [][ (trace_ret'.op \in { "activity", "tensor_activity", "delete" })
        => IF trace_ret'.op = "delete"
           THEN /\ handlers'.strong = handlers.strong - 1
                /\ traces'[trace_ret'.trace].deletes = 1
           ELSE handlers' = handlers /\ traces' = traces ]_vars

\* C37: a tensor-activity callback has run on a child trace the engine holds,
\* after the parent's delete callback.
C37_Witness ==
    /\ trace_ret.op = "tensor_activity"
    /\ trace_ret.trace > 1
    /\ traces[trace_ret.trace] = NativeTrace("forgotten", 0)
    /\ traces[1] = NativeTrace("forgotten", 1)
    /\ handlers.freed = 0

====
